---- MODULE Spec2Model ----
(***************************************************************************)
(* State-machine model of the dense ProxQP solver core:                    *)
(*   - the setup / update / warm_start helpers of qp/dense/helpers.hpp,    *)
(*   - the outer BCL loop qp_solve of qp/proxqp/solver.hpp with its inner  *)
(*     steps (initial_guess, correction_guess, newton_step and             *)
(*     iterative_solve_with_permut_fact).                                  *)
(*                                                                         *)
(* Numbers.  Problem data, iterates and residuals are integers; the        *)
(* proximal parameters, their inverses and the BCL tolerances are exact    *)
(* rationals <<num, den>>.  The LDLT engine, the line searches and the     *)
(* Ruiz equilibration are not part of the sources: the factorization is    *)
(* represented by the matrix it stands for, and the values produced by a   *)
(* triangular solve or a line search are drawn from small sets.            *)
(***************************************************************************)
EXTENDS Integers, Sequences, FiniteSets, TLC

VARIABLES
    qpsettings,   \* Settings<T>
    qpmodel,      \* Model<T>: the unscaled problem
    qpresults,    \* Results<T>: x, y, z and info
    qpwork,       \* Workspace<T>: scaled data, kkt, ldl, previous iterate
    ruiz,         \* RuizEquilibration<T>: the stored scaling diagonals
    loc,          \* the local variables of qp_solve and of the inner steps
    pc,           \* position of the running qp_solve ("idle" outside it)
    last,         \* the last interface call and its arguments
    nops,         \* interface calls made so far, and how many of them were solves
    budget        \* the interface calls and the solves a behaviour may make

vars == <<qpsettings, qpmodel, qpresults, qpwork, ruiz, loc, pc, last, nops, budget>>

-----------------------------------------------------------------------------
(* Bounds of the model *)

\* interface calls (setup, update, warm_start, solve, ...) per behaviour
MaxOps == 4
\* calls of qp_solve per behaviour
MaxSolves == 1
\* interface calls and solves per behaviour of the re-solve scenario
ResolveOps == 5
ResolveSolves == 2
\* interface calls per behaviour when update is run on every argument list
UpdateOps == 2
\* largest value of the setting max_iter
MaxIter == 2
\* largest value of the setting max_iter_in
MaxIterIn == 2
\* largest value of the setting nb_iterative_refinement
MaxRefine == 2

-----------------------------------------------------------------------------
(* Integer and rational arithmetic *)

Abs(a) == IF a < 0 THEN -a ELSE a

max2(a, b) == IF a >= b THEN a ELSE b

min2(a, b) == IF a <= b THEN a ELSE b

\* quotient rounded toward zero: the model of a floating-point division
\* (exact whenever b divides a)
Quot(a, b) == IF a >= 0 THEN a \div b ELSE -((-a) \div b)

RECURSIVE Gcd(_, _)
Gcd(a, b) == IF b = 0 THEN a ELSE Gcd(b, a % b)

\* the rational n/d in lowest terms with a positive denominator
Rat(n, d) ==
    LET s == IF d < 0 THEN -1 ELSE 1
        g == Gcd(Abs(n), Abs(d))
    IN  <<Quot(s * n, g), Quot(s * d, g)>>

RInt(i) == <<i, 1>>

\* the sum over the least common denominator
RAdd(p, q) ==
    LET g == Gcd(p[2], q[2])
    IN  Rat(p[1] * (q[2] \div g) + q[1] * (p[2] \div g), (p[2] \div g) * q[2])

RNeg(p) == <<-p[1], p[2]>>

RSub(p, q) == RAdd(p, RNeg(q))

RMul(p, q) == Rat(p[1] * q[1], p[2] * q[2])

RInv(p) == Rat(p[2], p[1])

RDiv(p, q) == RMul(p, RInv(q))

\* p <= q: by the integer parts, then by the fractional parts
RLeq(p, q) ==
    LET fp == p[1] \div p[2]
        fq == q[1] \div q[2]
    IN  IF fp # fq THEN fp < fq
        ELSE (p[1] % p[2]) * q[2] <= (q[1] % q[2]) * p[2]

RLt(p, q) == ~RLeq(q, p)

RMax(p, q) == IF RLeq(q, p) THEN p ELSE q

RMin(p, q) == IF RLeq(p, q) THEN p ELSE q

\* pow(p, k) for a natural exponent k
RECURSIVE RPow(_, _)
RPow(p, k) == IF k = 0 THEN <<1, 1>> ELSE RMul(p, RPow(p, k - 1))

-----------------------------------------------------------------------------
(* Vectors are sequences, matrices are sequences of rows *)

Zeros(k) == [i \in 1..k |-> 0]

RECURSIVE SumSeq(_)
SumSeq(s) == IF s = <<>> THEN 0 ELSE s[1] + SumSeq(Tail(s))

Dot(v, w) == SumSeq([i \in 1..Len(v) |-> v[i] * w[i]])

\* M * v
MatVec(M, v) == [i \in 1..Len(M) |-> Dot(M[i], v)]

\* M^T * v for a matrix with n columns
MatTVec(M, v, n) == [j \in 1..n |-> SumSeq([i \in 1..Len(M) |-> M[i][j] * v[i]])]

VAdd(v, w) == [i \in 1..Len(v) |-> v[i] + w[i]]

VSub(v, w) == [i \in 1..Len(v) |-> v[i] - w[i]]

RECURSIVE MaxSeq(_)
MaxSeq(s) == IF s = <<>> THEN 0 ELSE max2(s[1], MaxSeq(Tail(s)))

infty_norm(v) == MaxSeq([i \in 1..Len(v) |-> Abs(v[i])])

positive_part(v) == [i \in 1..Len(v) |-> IF v[i] > 0 THEN v[i] ELSE 0]

negative_part(v) == [i \in 1..Len(v) |-> IF v[i] < 0 THEN v[i] ELSE 0]

-----------------------------------------------------------------------------
(* Enumerations *)

\* InitialGuessStatus
InitialGuessStatus ==
    {"EQUALITY_CONSTRAINED_INITIAL_GUESS", "COLD_START_WITH_PREVIOUS_RESULT",
     "NO_INITIAL_GUESS", "WARM_START", "WARM_START_WITH_PREVIOUS_RESULT"}

\* PreconditionerStatus
PreconditionerStatus == {"EXECUTE", "IDENTITY", "KEEP"}

\* the two statuses a solve may report; "NotRun" is the value of a result
\* object that no solve has written
SolverStatus == {"Solved", "MaxIterReached"}

-----------------------------------------------------------------------------
(* Problem data.  The primal dimension is 1; n_eq and n_in are 0 or 1. *)

DimSet == {1}

NEqSet == {0, 1}

NInSet == {0, 1}

Row(k, a) == IF k = 0 THEN <<>> ELSE <<a>>

\* the problems handed to setup: id 0 has the solution x = 0, id 1 has x = 2
Problem(id, n_eq, n_in) ==
    IF id = 0
    THEN [H |-> <<<<1>>>>, g |-> <<0>>,
          A |-> Row(n_eq, <<1>>), b |-> Row(n_eq, 0),
          C |-> Row(n_in, <<1>>), u |-> Row(n_in, 1), l |-> Row(n_in, -1)]
    ELSE [H |-> <<<<1>>>>, g |-> <<-2>>,
          A |-> Row(n_eq, <<1>>), b |-> Row(n_eq, 2),
          C |-> Row(n_in, <<1>>), u |-> Row(n_in, 2), l |-> Row(n_in, 0)]

ProblemIds == {0, 1}

\* the replacement values handed to update (all differ from both problems)
Replacement(n_eq, n_in) ==
    [H |-> <<<<2>>>>, g |-> <<-1>>,
     A |-> Row(n_eq, <<2>>), b |-> Row(n_eq, 1),
     C |-> Row(n_in, <<2>>), u |-> Row(n_in, 3), l |-> Row(n_in, -2)]

\* the values an iterate component takes after an inner step (scaled space)
Vals == {-1, 0, 1}

\* the vectors of length k over a set
VecsOver(S, k) == IF k = 0 THEN {<<>>} ELSE {<<a>> : a \in S}

\* tl::optional: nullopt is the empty tuple, a supplied value v is <<v>>
nullopt == <<>>

Some(v) == <<v>>

value(o) == o[1]

-----------------------------------------------------------------------------
(* Ruiz equilibration: the stored diagonals dx (columns / primal), de        *)
(* (equality rows) and di (inequality rows); the cost scaling c is 1.       *)
(* x_scaled = x / dx, y_scaled = y / de, z_scaled = z / di; residuals are   *)
(* scaled by multiplying and unscaled by dividing.                          *)

RuizIdentity(n, n_eq, n_in) ==
    [dx |-> [i \in 1..n |-> 1], de |-> [i \in 1..n_eq |-> 1], di |-> [i \in 1..n_in |-> 1]]

\* the diagonals an executed equilibration may compute
RuizOutcomes(n, n_eq, n_in) ==
    {[dx |-> [i \in 1..n |-> a], de |-> [i \in 1..n_eq |-> b], di |-> [i \in 1..n_in |-> c]] :
        <<a, b, c>> \in {<<2, 2, 2>>}}

VMul(v, d) == [i \in 1..Len(v) |-> v[i] * d[i]]

VQuot(v, d) == [i \in 1..Len(v) |-> Quot(v[i], d[i])]

scale_primal_in_place(r, x) == VQuot(x, r.dx)

unscale_primal_in_place(r, x) == VMul(x, r.dx)

scale_dual_in_place_eq(r, y) == VQuot(y, r.de)

unscale_dual_in_place_eq(r, y) == VMul(y, r.de)

scale_dual_in_place_in(r, z) == VQuot(z, r.di)

unscale_dual_in_place_in(r, z) == VMul(z, r.di)

scale_primal_residual_in_place_eq(r, v) == VMul(v, r.de)

unscale_primal_residual_in_place_eq(r, v) == VQuot(v, r.de)

scale_primal_residual_in_place_in(r, v) == VMul(v, r.di)

unscale_primal_residual_in_place_in(r, v) == VQuot(v, r.di)

scale_dual_residual_in_place(r, v) == VMul(v, r.dx)

unscale_dual_residual_in_place(r, v) == VQuot(v, r.dx)

\* scale_qp_in_place: with execute the diagonals are recomputed (outcome),
\* without it the stored ones are reused; then the seven buffers are scaled
scale_qp_in_place(r, qp, execute, outcome) ==
    LET d == IF execute THEN outcome ELSE r
    IN  [ruiz |-> d,
         H |-> [i \in 1..Len(qp.H) |-> [j \in 1..Len(qp.H[i]) |-> d.dx[i] * qp.H[i][j] * d.dx[j]]],
         g |-> VMul(qp.g, d.dx),
         A |-> [i \in 1..Len(qp.A) |-> [j \in 1..Len(qp.A[i]) |-> d.de[i] * qp.A[i][j] * d.dx[j]]],
         b |-> VMul(qp.b, d.de),
         C |-> [i \in 1..Len(qp.C) |-> [j \in 1..Len(qp.C[i]) |-> d.di[i] * qp.C[i][j] * d.dx[j]]],
         u |-> VMul(qp.u, d.di),
         l |-> VMul(qp.l, d.di)]

-----------------------------------------------------------------------------
(* Settings, results and workspace objects *)

\* the values of Settings<T> used by the model; eps_abs, eps_rel, max_iter,
\* max_iter_in and nb_iterative_refinement are drawn in Init
SettingsValues(ea, er, mi, mii, nbr, ig) ==
    [eps_abs |-> ea, eps_rel |-> er,
     max_iter |-> mi, max_iter_in |-> mii, nb_iterative_refinement |-> nbr,
     alpha_bcl |-> 1, beta_bcl |-> 1,
     mu_update_factor |-> <<10, 1>>, mu_update_inv_factor |-> <<1, 10>>,
     mu_max_eq |-> <<10000, 1>>, mu_max_in |-> <<1000000, 1>>,
     mu_max_eq_inv |-> <<1, 10000>>, mu_max_in_inv |-> <<1, 1000000>>,
     cold_reset_mu_eq |-> <<11, 10>>, cold_reset_mu_in |-> <<11, 10>>,
     cold_reset_mu_eq_inv |-> <<10, 11>>, cold_reset_mu_in_inv |-> <<10, 11>>,
     refactor_rho_threshold |-> <<1, 1000>>,
     refactor_dual_feasibility_threshold |-> <<1, 100>>,
     eps_IG |-> <<1, 10000>>, eps_refact |-> <<1, 1000>>,
     initial_guess |-> ig]

\* Results<T>::info after construction or a full reset
DefaultInfo ==
    [rho |-> <<1, 100>>,
     mu_eq |-> <<1000, 1>>, mu_eq_inv |-> <<1, 1000>>,
     mu_in |-> <<10, 1>>, mu_in_inv |-> <<1, 10>>,
     n_ext |-> 0, n_tot |-> 0, n_mu_change |-> 0,
     objValue |-> <<0, 1>>, status |-> "NotRun"]

\* Results<T> after construction
ResultsInit(n, n_eq, n_in) ==
    [x |-> Zeros(n), y |-> Zeros(n_eq), z |-> Zeros(n_in), n_c |-> 0, info |-> DefaultInfo]

\* Results<T>::cleanup: everything is reset
results_cleanup(res) == ResultsInit(Len(res.x), Len(res.y), Len(res.z))

\* Results<T>::cold_start: everything except x, y, z is reset
results_cold_start(res) == [res EXCEPT !.n_c = 0, !.info = DefaultInfo]

\* Results<T>::cleanup_statistics: only the statistics are reset
results_cleanup_statistics(res) ==
    [res EXCEPT !.info.n_ext = 0, !.info.n_tot = 0, !.info.n_mu_change = 0,
                !.info.objValue = <<0, 1>>]

ZeroMat(r, c) == [i \in 1..r |-> [j \in 1..c |-> 0]]

ZeroRMat(r, c) == [i \in 1..r |-> [j \in 1..c |-> <<0, 1>>]]

\* Workspace<T> after construction; Workspace<T>::cleanup restores it
WorkspaceInit(n, n_eq, n_in) ==
    [H_scaled |-> ZeroMat(n, n), g_scaled |-> Zeros(n),
     A_scaled |-> ZeroMat(n_eq, n), b_scaled |-> Zeros(n_eq),
     C_scaled |-> ZeroMat(n_in, n), u_scaled |-> Zeros(n_in), l_scaled |-> Zeros(n_in),
     x_prev |-> Zeros(n), y_prev |-> Zeros(n_eq), z_prev |-> Zeros(n_in),
     kkt |-> ZeroRMat(n + n_eq, n + n_eq),
     ldl |-> <<>>,
     rhs |-> Zeros(n + n_eq + n_in), dw_aug |-> Zeros(n + n_eq + n_in),
     current_bijection_map |-> [i \in 1..n_in |-> i - 1],
     active_inequalities |-> [i \in 1..n_in |-> FALSE],
     primal_feasibility_rhs_1_eq |-> 0,
     primal_feasibility_rhs_1_in_u |-> 0,
     primal_feasibility_rhs_1_in_l |-> 0,
     dual_feasibility_rhs_2 |-> 0,
     correction_guess_rhs_g |-> 0]

work_cleanup(w) == WorkspaceInit(Len(w.g_scaled), Len(w.b_scaled), Len(w.u_scaled))

\* the scratch vectors rhs and dw_aug are kept by their pattern: 0 for an entry
\* that is zero, 1 for an entry that a solve or a copy has written and that
\* can hold any value.  The pattern v with its first k entries set to c
head_fill(v, k, c) == [i \in 1..Len(v) |-> IF i <= k THEN c ELSE v[i]]

\* Model<T> after construction
ModelInit(n, n_eq, n_in) ==
    [dim |-> n, n_eq |-> n_eq, n_in |-> n_in,
     H |-> ZeroMat(n, n), g |-> Zeros(n),
     A |-> ZeroMat(n_eq, n), b |-> Zeros(n_eq),
     C |-> ZeroMat(n_in, n), u |-> Zeros(n_in), l |-> Zeros(n_in)]

-----------------------------------------------------------------------------
(* helpers.hpp: setup_factorization, setup_equilibration, setup *)

\* the matrix assembled in qpwork.kkt by setup_factorization
KktOf(H_scaled, A_scaled, rho, eq_diag, n, n_eq) ==
    [i \in 1..(n + n_eq) |-> [j \in 1..(n + n_eq) |->
        IF i <= n /\ j <= n
        THEN RAdd(RInt(H_scaled[i][j]), IF i = j THEN rho ELSE <<0, 1>>)
        ELSE IF i <= n THEN RInt(A_scaled[j - n][i])
        ELSE IF j <= n THEN RInt(A_scaled[i - n][j])
        ELSE IF i = j THEN eq_diag ELSE <<0, 1>>]]

\* setup_factorization: returns the workspace with kkt assembled and factorized
setup_factorization(work, model, results) ==
    LET kkt == KktOf(work.H_scaled, work.A_scaled, results.info.rho,
                     RNeg(results.info.mu_eq), model.dim, model.n_eq)
    IN  [work EXCEPT !.kkt = kkt, !.ldl = kkt]

\* setup_equilibration: returns the new workspace and preconditioner
setup_equilibration(work, r, execute_preconditioner, outcome) ==
    LET s == scale_qp_in_place(r,
                 [H |-> work.H_scaled, g |-> work.g_scaled, A |-> work.A_scaled,
                  b |-> work.b_scaled, C |-> work.C_scaled, u |-> work.u_scaled,
                  l |-> work.l_scaled],
                 execute_preconditioner, outcome)
    IN  [ruiz |-> s.ruiz,
         work |-> [work EXCEPT !.H_scaled = s.H, !.g_scaled = s.g, !.A_scaled = s.A,
                               !.b_scaled = s.b, !.C_scaled = s.C, !.u_scaled = s.u,
                               !.l_scaled = s.l,
                               !.correction_guess_rhs_g = infty_norm(s.g)]]

\* setup_reset with a single reset for every policy
setup_reset_all(policy, work, results) ==
    [work |-> work_cleanup(work), results |-> results_cleanup(results)]

\* a first switch that keeps x, y, z under the policy WARM_START
setup_reset_keeping_warm_start(policy, work, results) ==
    IF policy \in {"COLD_START_WITH_PREVIOUS_RESULT", "WARM_START"}
    THEN [work |-> work_cleanup(work), results |-> results_cold_start(results)]
    ELSE IF policy = "WARM_START_WITH_PREVIOUS_RESULT"
    THEN [work |-> work, results |-> results_cleanup_statistics(results)]
    ELSE [work |-> work_cleanup(work), results |-> results_cleanup(results)]

\* setup, first switch: what is reset for each initial-guess policy
setup_reset(policy, work, results) ==
    CASE policy = "EQUALITY_CONSTRAINED_INITIAL_GUESS" ->
            [work |-> work_cleanup(work), results |-> results_cleanup(results)]
      [] policy = "COLD_START_WITH_PREVIOUS_RESULT" ->
            [work |-> work_cleanup(work), results |-> results_cold_start(results)]
      [] policy = "NO_INITIAL_GUESS" ->
            [work |-> work_cleanup(work), results |-> results_cleanup(results)]
      [] policy = "WARM_START" ->
            [work |-> work_cleanup(work), results |-> results_cleanup(results)]
      [] policy = "WARM_START_WITH_PREVIOUS_RESULT" ->
            [work |-> work, results |-> results_cleanup_statistics(results)]

\* setup, second switch on the preconditioner directive
setup_precond(preconditioner_status, work, r, outcome) ==
    CASE preconditioner_status = "EXECUTE" -> setup_equilibration(work, r, TRUE, outcome)
      [] preconditioner_status = "IDENTITY" -> setup_equilibration(work, r, FALSE, outcome)
      [] preconditioner_status = "KEEP" -> setup_equilibration(work, r, FALSE, outcome)

\* setup_rescale with the third switch left out: the retained iterate stays unscaled
setup_rescale_none(policy, results, r) == results

\* setup, third switch: the retained iterate is scaled
setup_rescale(policy, results, r) ==
    CASE policy = "EQUALITY_CONSTRAINED_INITIAL_GUESS" -> results
      [] policy = "COLD_START_WITH_PREVIOUS_RESULT" ->
            [results EXCEPT !.x = scale_primal_in_place(r, results.x),
                            !.y = scale_dual_in_place_eq(r, results.y),
                            !.z = scale_dual_in_place_in(r, results.z)]
      [] policy = "NO_INITIAL_GUESS" -> results
      [] policy = "WARM_START" -> results
      [] policy = "WARM_START_WITH_PREVIOUS_RESULT" ->
            [results EXCEPT !.x = scale_primal_in_place(r, results.x),
                            !.y = scale_dual_in_place_eq(r, results.y),
                            !.z = scale_dual_in_place_in(r, results.z)]

\* setup: returns the new model, workspace, results and preconditioner
setup(qp, settings, model, work, results, r, preconditioner_status, outcome) ==
    LET reset == setup_reset(settings.initial_guess, work, results)
        m1 == [model EXCEPT !.H = qp.H, !.g = qp.g, !.A = qp.A, !.b = qp.b,
                            !.C = qp.C, !.u = qp.u, !.l = qp.l]
        w1 == [reset.work EXCEPT
                  !.H_scaled = m1.H, !.g_scaled = m1.g, !.A_scaled = m1.A,
                  !.b_scaled = m1.b, !.C_scaled = m1.C, !.u_scaled = m1.u,
                  !.l_scaled = m1.l,
                  !.primal_feasibility_rhs_1_eq = infty_norm(m1.b),
                  !.primal_feasibility_rhs_1_in_u = infty_norm(m1.u),
                  !.primal_feasibility_rhs_1_in_l = infty_norm(m1.l),
                  !.dual_feasibility_rhs_2 = infty_norm(m1.g)]
        eq == setup_precond(preconditioner_status, w1, r, outcome)
    IN  [model |-> m1, work |-> eq.work, ruiz |-> eq.ruiz,
         results |-> setup_rescale(settings.initial_guess, reset.results, eq.ruiz)]

-----------------------------------------------------------------------------
(* helpers.hpp: update, warm_start *)

\* update with the innermost branch (H, A and C all supplied) forgetting C
update_forgets_C(H_, g_, A_, b_, C_, u_, l_, model) ==
    LET m1 == IF g_ # nullopt THEN [model EXCEPT !.g = value(g_)] ELSE model
        m2 == IF b_ # nullopt THEN [m1 EXCEPT !.b = value(b_)] ELSE m1
        m3 == IF u_ # nullopt THEN [m2 EXCEPT !.u = value(u_)] ELSE m2
        m4 == IF l_ # nullopt THEN [m3 EXCEPT !.l = value(l_)] ELSE m3
        m5 == IF H_ # nullopt THEN [m4 EXCEPT !.H = value(H_)] ELSE m4
        m6 == IF A_ # nullopt THEN [m5 EXCEPT !.A = value(A_)] ELSE m5
    IN  IF C_ # nullopt /\ ~(H_ # nullopt /\ A_ # nullopt)
        THEN [m6 EXCEPT !.C = value(C_)]
        ELSE m6

\* update: the model with the supplied fields replaced
update(H_, g_, A_, b_, C_, u_, l_, model) ==
    LET m1 == IF g_ # nullopt THEN [model EXCEPT !.g = value(g_)] ELSE model
        m2 == IF b_ # nullopt THEN [m1 EXCEPT !.b = value(b_)] ELSE m1
        m3 == IF u_ # nullopt THEN [m2 EXCEPT !.u = value(u_)] ELSE m2
        m4 == IF l_ # nullopt THEN [m3 EXCEPT !.l = value(l_)] ELSE m3
    IN  IF H_ # nullopt
        THEN IF A_ # nullopt
             THEN IF C_ # nullopt
                  THEN [m4 EXCEPT !.H = value(H_), !.A = value(A_), !.C = value(C_)]
                  ELSE [m4 EXCEPT !.H = value(H_), !.A = value(A_)]
             ELSE IF C_ # nullopt
                  THEN [m4 EXCEPT !.H = value(H_), !.C = value(C_)]
                  ELSE [m4 EXCEPT !.H = value(H_)]
        ELSE IF A_ # nullopt
             THEN IF C_ # nullopt
                  THEN [m4 EXCEPT !.A = value(A_), !.C = value(C_)]
                  ELSE [m4 EXCEPT !.A = value(A_)]
             ELSE IF C_ # nullopt
                  THEN [m4 EXCEPT !.C = value(C_)]
                  ELSE m4

\* warm_start: the new results and settings
warm_start(x_wm, y_wm, z_wm, results, settings) ==
    LET n_eq == Len(results.y)
        n_in == Len(results.z)
        res ==
            IF n_eq # 0
            THEN IF n_in # 0
                 THEN IF x_wm # nullopt /\ y_wm # nullopt /\ z_wm # nullopt
                      THEN [results EXCEPT !.x = value(x_wm), !.y = value(y_wm), !.z = value(z_wm)]
                      ELSE results
                 ELSE IF x_wm # nullopt /\ y_wm # nullopt
                      THEN [results EXCEPT !.x = value(x_wm), !.y = value(y_wm)]
                      ELSE results
            ELSE IF n_in # 0
                 THEN IF x_wm # nullopt /\ z_wm # nullopt
                      THEN [results EXCEPT !.x = value(x_wm), !.z = value(z_wm)]
                      ELSE results
                 ELSE IF x_wm # nullopt
                      THEN [results EXCEPT !.x = value(x_wm)]
                      ELSE results
    IN  [results |-> res, settings |-> [settings EXCEPT !.initial_guess = "WARM_START"]]

-----------------------------------------------------------------------------
(* The LDLT engine, represented by the matrix it factorizes *)

RMatDim(M) == Len(M)

\* rank_one_update along the basis vector of (1-based) index k with scalar sigma
ldl_rank_one_update(M, k, sigma) ==
    IF k \in 1..Len(M) THEN [M EXCEPT ![k][k] = RAdd(M[k][k], sigma)] ELSE M

\* insert_at(k, col): a symmetric row/column is inserted at (0-based) position k
ldl_insert_at(M, k, col) ==
    LET d == Len(M)
        old(i) == IF i <= k THEN i ELSE i - 1
    IN  [i \in 1..(d + 1) |-> [j \in 1..(d + 1) |->
            IF i = k + 1 THEN col[j]
            ELSE IF j = k + 1 THEN col[i]
            ELSE M[old(i)][old(j)]]]

\* remove_at(k): the symmetric row/column at (0-based) position k is deleted
ldl_remove_at(M, k) ==
    LET d == Len(M)
        old(i) == IF i <= k THEN i ELSE i + 1
    IN  [i \in 1..(d - 1) |-> [j \in 1..(d - 1) |-> M[old(i)][old(j)]]]

\* a column for insert_at that carries the row of C_scaled but no penalty entry
active_column_unpenalized(model, results, work, i, j, len) ==
    [k \in 1..len |-> IF k <= model.dim THEN RInt(work.C_scaled[i][k]) ELSE <<0, 1>>]

\* the column handed to insert_at for inequality row i placed in slot j:
\* row i of C_scaled, zeros, and -1/mu_in at index dim + n_eq + j
active_column(model, results, work, i, j, len) ==
    [k \in 1..len |->
        IF k <= model.dim THEN RInt(work.C_scaled[i][k])
        ELSE IF k = model.dim + model.n_eq + j + 1 THEN RNeg(results.info.mu_in_inv)
        ELSE <<0, 1>>]

\* a rebuild that re-inserts no active inequality
reinsert_active_none(M, model, results, work, j) == M

\* the loop of refactorize / of the fallback of the inner solve that re-inserts
\* the active inequalities, slots j, j + 1, ..., n_c - 1 in this order
RECURSIVE reinsert_active(_, _, _, _, _)
reinsert_active(M, model, results, work, j) ==
    IF j >= results.n_c THEN M
    ELSE LET rows == {i \in 1..model.n_in : work.current_bijection_map[i] = j}
             M1 == IF rows = {} THEN M
                   ELSE LET i == CHOOSE r \in rows : TRUE
                        IN  ldl_insert_at(M, model.n_eq + model.dim + j,
                                active_column(model, results, work, i, j,
                                              model.dim + model.n_eq + results.n_c))
         IN  reinsert_active(M1, model, results, work, j + 1)

-----------------------------------------------------------------------------
(* solver.hpp: refactorize, mu_update, bcl_update, residuals *)

\* a refactorize that leaves the primal diagonal of the KKT block as it was
refactorize_unshifted(model, results, work, rho_new) ==
    LET kkt == [i \in 1..Len(work.kkt) |-> [j \in 1..Len(work.kkt) |->
                  IF i = j /\ i > model.dim /\ i <= model.dim + model.n_eq
                  THEN RNeg(results.info.mu_eq_inv)
                  ELSE work.kkt[i][j]]]
    IN  [work EXCEPT !.kkt = kkt,
                     !.ldl = reinsert_active(kkt, model, results, work, 0),
                     !.dw_aug = Zeros(Len(@))]

\* refactorize: the workspace after the KKT block is rebuilt with rho_new
refactorize(model, results, work, rho_new) ==
    LET n == model.dim
        kkt == [i \in 1..Len(work.kkt) |-> [j \in 1..Len(work.kkt) |->
                  IF i = j /\ i <= n
                  THEN RAdd(work.kkt[i][j], RSub(rho_new, results.info.rho))
                  ELSE IF i = j /\ i <= n + model.n_eq
                  THEN RNeg(results.info.mu_eq_inv)
                  ELSE work.kkt[i][j]]]
    IN  [work EXCEPT !.kkt = kkt,
                     !.ldl = reinsert_active(kkt, model, results, work, 0),
                     !.dw_aug = Zeros(Len(@))]

RECURSIVE rank_one_range(_, _, _, _)
rank_one_range(M, first, count, sigma) ==
    IF count = 0 THEN M
    ELSE rank_one_range(ldl_rank_one_update(M, first, sigma), first + 1, count - 1, sigma)

\* a mu_update that leaves out the slots of the active inequalities
mu_update_equalities_only(model, results, work, mu_eq_new_inv, mu_in_new_inv) ==
    LET M1 == IF model.n_eq > 0
              THEN rank_one_range(work.ldl, model.dim + 1, model.n_eq,
                                  RSub(results.info.mu_eq_inv, mu_eq_new_inv))
              ELSE work.ldl
    IN  [work EXCEPT !.ldl = M1,
                     !.dw_aug = head_fill(@, model.dim + model.n_eq + results.n_c, 0)]

\* mu_update: the workspace after the rank-one updates of the factorization
mu_update(model, results, work, mu_eq_new_inv, mu_in_new_inv) ==
    LET M1 == IF model.n_eq > 0
              THEN rank_one_range(work.ldl, model.dim + 1, model.n_eq,
                                  RSub(results.info.mu_eq_inv, mu_eq_new_inv))
              ELSE work.ldl
        M2 == IF results.n_c > 0
              THEN rank_one_range(M1, model.dim + model.n_eq + 1, results.n_c,
                                  RSub(results.info.mu_in_inv, mu_in_new_inv))
              ELSE M1
    IN  [work EXCEPT !.ldl = M2,
                     !.dw_aug = head_fill(@, model.dim + model.n_eq + results.n_c, 0)]

\* a BCL update whose good step multiplies the outer tolerance by mu_in
\* (the reciprocal of the factor of bcl_update)
bcl_update_growing(settings, results, work, primal_feasibility_lhs, l) ==
    IF RLeq(RInt(primal_feasibility_lhs), l.bcl_eta_ext)
    THEN [y |-> results.y, z |-> results.z,
          bcl_eta_ext |-> RMul(l.bcl_eta_ext, RPow(results.info.mu_in, settings.beta_bcl)),
          bcl_eta_in |-> RMax(RMul(l.bcl_eta_in, results.info.mu_in_inv), l.eps_in_min),
          new_bcl_mu_in |-> l.new_bcl_mu_in, new_bcl_mu_eq |-> l.new_bcl_mu_eq,
          new_bcl_mu_in_inv |-> l.new_bcl_mu_in_inv,
          new_bcl_mu_eq_inv |-> l.new_bcl_mu_eq_inv]
    ELSE LET mu_in_inv == RMax(RMul(results.info.mu_in_inv, settings.mu_update_inv_factor),
                               settings.mu_max_in_inv)
         IN  [y |-> work.y_prev, z |-> work.z_prev,
              bcl_eta_ext |-> RMul(l.bcl_eta_ext_init, RPow(mu_in_inv, settings.alpha_bcl)),
              bcl_eta_in |-> RMax(mu_in_inv, l.eps_in_min),
              new_bcl_mu_in |-> RMin(RMul(results.info.mu_in, settings.mu_update_factor),
                                     settings.mu_max_in),
              new_bcl_mu_eq |-> RMin(RMul(results.info.mu_eq, settings.mu_update_factor),
                                     settings.mu_max_eq),
              new_bcl_mu_in_inv |-> mu_in_inv,
              new_bcl_mu_eq_inv |-> RMax(RMul(results.info.mu_eq_inv,
                                              settings.mu_update_inv_factor),
                                         settings.mu_max_eq_inv)]

\* a BCL update whose bad step multiplies the penalties without the caps
bcl_update_uncapped(settings, results, work, primal_feasibility_lhs, l) ==
    IF RLeq(RInt(primal_feasibility_lhs), l.bcl_eta_ext)
    THEN [y |-> results.y, z |-> results.z,
          bcl_eta_ext |-> RMul(l.bcl_eta_ext, RPow(results.info.mu_in_inv, settings.beta_bcl)),
          bcl_eta_in |-> RMax(RMul(l.bcl_eta_in, results.info.mu_in_inv), l.eps_in_min),
          new_bcl_mu_in |-> l.new_bcl_mu_in, new_bcl_mu_eq |-> l.new_bcl_mu_eq,
          new_bcl_mu_in_inv |-> l.new_bcl_mu_in_inv,
          new_bcl_mu_eq_inv |-> l.new_bcl_mu_eq_inv]
    ELSE LET mu_in_inv == RMul(results.info.mu_in_inv, settings.mu_update_inv_factor)
         IN  [y |-> work.y_prev, z |-> work.z_prev,
              bcl_eta_ext |-> RMul(l.bcl_eta_ext_init, RPow(mu_in_inv, settings.alpha_bcl)),
              bcl_eta_in |-> RMax(mu_in_inv, l.eps_in_min),
              new_bcl_mu_in |-> RMul(results.info.mu_in, settings.mu_update_factor),
              new_bcl_mu_eq |-> RMul(results.info.mu_eq, settings.mu_update_factor),
              new_bcl_mu_in_inv |-> mu_in_inv,
              new_bcl_mu_eq_inv |-> RMul(results.info.mu_eq_inv,
                                         settings.mu_update_inv_factor)]

\* bcl_update: the new y, z, tolerances and proposed penalties
bcl_update(settings, results, work, primal_feasibility_lhs, l) ==
    IF RLeq(RInt(primal_feasibility_lhs), l.bcl_eta_ext)
    THEN [y |-> results.y, z |-> results.z,
          bcl_eta_ext |-> RMul(l.bcl_eta_ext, RPow(results.info.mu_in_inv, settings.beta_bcl)),
          bcl_eta_in |-> RMax(RMul(l.bcl_eta_in, results.info.mu_in_inv), l.eps_in_min),
          new_bcl_mu_in |-> l.new_bcl_mu_in, new_bcl_mu_eq |-> l.new_bcl_mu_eq,
          new_bcl_mu_in_inv |-> l.new_bcl_mu_in_inv,
          new_bcl_mu_eq_inv |-> l.new_bcl_mu_eq_inv]
    ELSE LET mu_in_inv == RMax(RMul(results.info.mu_in_inv, settings.mu_update_inv_factor),
                               settings.mu_max_in_inv)
         IN  [y |-> work.y_prev, z |-> work.z_prev,
              bcl_eta_ext |-> RMul(l.bcl_eta_ext_init, RPow(mu_in_inv, settings.alpha_bcl)),
              bcl_eta_in |-> RMax(mu_in_inv, l.eps_in_min),
              new_bcl_mu_in |-> RMin(RMul(results.info.mu_in, settings.mu_update_factor),
                                     settings.mu_max_in),
              new_bcl_mu_eq |-> RMin(RMul(results.info.mu_eq, settings.mu_update_factor),
                                     settings.mu_max_eq),
              new_bcl_mu_in_inv |-> mu_in_inv,
              new_bcl_mu_eq_inv |-> RMax(RMul(results.info.mu_eq_inv,
                                              settings.mu_update_inv_factor),
                                         settings.mu_max_eq_inv)]

\* global_primal_residual: the unscaled primal residual norms
global_primal_residual(model, results, work, r) ==
    LET Ax == unscale_primal_residual_in_place_eq(r, MatVec(work.A_scaled, results.x))
        Cx == unscale_primal_residual_in_place_in(r, MatVec(work.C_scaled, results.x))
        in_low == VAdd(positive_part(VSub(Cx, model.u)), negative_part(VSub(Cx, model.l)))
        eq == VSub(Ax, model.b)
    IN  [primal_feasibility_eq_rhs_0 |-> infty_norm(Ax),
         primal_feasibility_in_rhs_0 |-> infty_norm(Cx),
         primal_feasibility_in_lhs |-> infty_norm(in_low),
         primal_feasibility_eq_lhs |-> infty_norm(eq),
         primal_feasibility_lhs |-> max2(infty_norm(eq), infty_norm(in_low))]

\* global_dual_residual: the unscaled dual residual norms
global_dual_residual(model, results, work, r) ==
    LET Hx == MatVec(work.H_scaled, results.x)
        ATy == MatTVec(work.A_scaled, results.y, model.dim)
        CTz == MatTVec(work.C_scaled, results.z, model.dim)
        dual == VAdd(VAdd(VAdd(work.g_scaled, Hx), ATy), CTz)
    IN  [dual_feasibility_rhs_0 |-> infty_norm(unscale_dual_residual_in_place(r, Hx)),
         dual_feasibility_rhs_1 |-> infty_norm(unscale_dual_residual_in_place(r, ATy)),
         dual_feasibility_rhs_3 |-> infty_norm(unscale_dual_residual_in_place(r, CTz)),
         dual_feasibility_lhs |-> infty_norm(unscale_dual_residual_in_place(r, dual))]

\* (0.5 * H * x + g) . x
objective(model, x) == Rat(Dot(MatVec(model.H, x), x) + 2 * Dot(model.g, x), 2)

-----------------------------------------------------------------------------
(* State after construction *)

\* <<eps_abs, eps_rel, max_iter, max_iter_in, nb_iterative_refinement>> drawn in Init
BaseSetting == <<1, 0, 1, MaxIterIn, 0>>

SettingChoices ==
    {BaseSetting,
     <<1, 0, MaxIter, MaxIterIn, MaxRefine>>,
     <<0, 1, 1, MaxIterIn, 0>>,
     <<1, 0, 0, MaxIterIn, MaxRefine>>}

\* <<n_eq, n_in, setting choice, initial-guess policy>> drawn in Init
InitChoices ==
    {<<1, 1, BaseSetting, ig>> : ig \in InitialGuessStatus}
        \cup {<<1, 1, c, "WARM_START_WITH_PREVIOUS_RESULT">> : c \in SettingChoices}
        \cup {<<d[1], d[2], BaseSetting, "EQUALITY_CONSTRAINED_INITIAL_GUESS">> :
                 d \in NEqSet \X NInSet}

\* the locals of qp_solve and of the routines it calls, when no solve is running
LocIdle ==
    [iter |-> 0, n_ext_entry |-> 0, exit |-> "none",
     bcl_eta_ext_init |-> <<0, 1>>, bcl_eta_ext |-> <<0, 1>>, bcl_eta_in |-> <<0, 1>>,
     eps_in_min |-> <<0, 1>>,
     primal_feasibility_eq_rhs_0 |-> 0, primal_feasibility_in_rhs_0 |-> 0,
     dual_feasibility_rhs_0 |-> 0, dual_feasibility_rhs_1 |-> 0,
     dual_feasibility_rhs_3 |-> 0,
     primal_feasibility_lhs |-> 0, primal_feasibility_lhs_new |-> 0,
     dual_feasibility_lhs |-> 0, dual_feasibility_lhs_new |-> 0,
     is_primal_feasible |-> FALSE, is_dual_feasible |-> FALSE,
     new_bcl_mu_in |-> <<0, 1>>, new_bcl_mu_eq |-> <<0, 1>>,
     new_bcl_mu_in_inv |-> <<0, 1>>, new_bcl_mu_eq_inv |-> <<0, 1>>,
     do_initial_guess_fact |-> FALSE, err_in |-> <<0, 1>>, alpha |-> 1,
     iter_in |-> 0, z_shift |-> <<>>,
     ret |-> "none", eps |-> <<0, 1>>, inner_pb_dim |-> 0, it |-> 0, it_stability |-> 0,
     err |-> <<0, 1>>, preverr |-> <<0, 1>>, pass |-> 0,
     n_unscale |-> 0, n_initial_guess |-> 0, n_newton |-> 0, n_refine |-> 0]

\* no interface call yet; the record of the latest interface call otherwise
NoCall ==
    [op |-> "none", policy |-> "none", precond |-> "none",
     H_ |-> nullopt, g_ |-> nullopt, A_ |-> nullopt, b_ |-> nullopt,
     C_ |-> nullopt, u_ |-> nullopt, l_ |-> nullopt,
     x_wm |-> nullopt, y_wm |-> nullopt, z_wm |-> nullopt,
     exit |-> "none", resolve |-> FALSE, sol |-> <<>>, matrix_update |-> FALSE]

\* the objects after construction, with the given sizes and settings
Constructed(n, n_eq, n_in, c, ig) ==
    /\ qpsettings = SettingsValues(c[1], c[2], c[3], c[4], c[5], ig)
    /\ qpmodel = ModelInit(n, n_eq, n_in)
    /\ qpresults = ResultsInit(n, n_eq, n_in)
    /\ qpwork = WorkspaceInit(n, n_eq, n_in)
    /\ ruiz = RuizIdentity(n, n_eq, n_in)
    /\ loc = LocIdle
    /\ pc = "idle"
    /\ last = NoCall
    /\ nops = [calls |-> 0, solves |-> 0]

Init ==
    /\ \E n \in DimSet, i \in InitChoices : Constructed(n, i[1], i[2], i[3], i[4])
    /\ budget = [calls |-> MaxOps, solves |-> MaxSolves]

-----------------------------------------------------------------------------
(* Interface calls: enabled when no solve is running *)

\* the scaled problem data held by a workspace
ScaledData(w) ==
    <<w.H_scaled, w.g_scaled, w.A_scaled, w.b_scaled, w.C_scaled, w.u_scaled, w.l_scaled>>

CanCall == pc = "idle" /\ nops.calls < budget.calls

\* setup(H, g, A, b, C, u, l, settings, model, work, results, ruiz, status);
\* the record of a setup called right after warm_start keeps the iterate that
\* warm_start left in the results
Setup(id, preconditioner_status, outcome) ==
    /\ CanCall
    /\ LET s == setup(Problem(id, qpmodel.n_eq, qpmodel.n_in), qpsettings, qpmodel,
                      qpwork, qpresults, ruiz, preconditioner_status, outcome)
       IN  /\ qpmodel' = s.model
           /\ qpwork' = s.work
           /\ qpresults' = s.results
           /\ ruiz' = s.ruiz
    /\ LET s == setup(Problem(id, qpmodel.n_eq, qpmodel.n_in), qpsettings, qpmodel,
                      qpwork, qpresults, ruiz, preconditioner_status, outcome)
           same == /\ last.op = "solve"
                   /\ last.exit \in {"SolvedTop", "SolvedPost"}
                   /\ s.model = qpmodel
                   /\ s.ruiz = ruiz
                   /\ ScaledData(s.work) = ScaledData(qpwork)
       IN  last' = [NoCall EXCEPT !.op = "setup", !.policy = qpsettings.initial_guess,
                                  !.precond = preconditioner_status,
                                  !.resolve = same,
                                  !.sol = IF same
                                          THEN <<qpresults.x, qpresults.y, qpresults.z>>
                                          ELSE <<>>,
                                  !.x_wm = IF last.op = "warm_start"
                                           THEN Some(qpresults.x) ELSE nullopt,
                                  !.y_wm = IF last.op = "warm_start"
                                           THEN Some(qpresults.y) ELSE nullopt,
                                  !.z_wm = IF last.op = "warm_start"
                                           THEN Some(qpresults.z) ELSE nullopt]
    /\ nops' = [nops EXCEPT !.calls = @ + 1]
    /\ UNCHANGED <<qpsettings, loc, pc, budget>>

\* setup_factorization(work, model, results)
SetupFactorization ==
    /\ CanCall
    /\ qpwork' = setup_factorization(qpwork, qpmodel, qpresults)
    /\ last' = [NoCall EXCEPT !.op = "setup_factorization"]
    /\ nops' = [nops EXCEPT !.calls = @ + 1]
    /\ UNCHANGED <<qpsettings, qpmodel, qpresults, ruiz, loc, pc, budget>>

\* update(H_, g_, A_, b_, C_, u_, l_, model)
Update(H_, g_, A_, b_, C_, u_, l_) ==
    /\ CanCall
    /\ qpmodel' = update(H_, g_, A_, b_, C_, u_, l_, qpmodel)
    /\ last' = [NoCall EXCEPT !.op = "update", !.H_ = H_, !.g_ = g_, !.A_ = A_,
                              !.b_ = b_, !.C_ = C_, !.u_ = u_, !.l_ = l_]
    /\ nops' = [nops EXCEPT !.calls = @ + 1]
    /\ UNCHANGED <<qpsettings, qpresults, qpwork, ruiz, loc, pc, budget>>

\* warm_start(x_wm, y_wm, z_wm, results, settings)
WarmStart(x_wm, y_wm, z_wm) ==
    /\ CanCall
    /\ LET s == warm_start(x_wm, y_wm, z_wm, qpresults, qpsettings)
       IN  /\ qpresults' = s.results
           /\ qpsettings' = s.settings
    /\ last' = [NoCall EXCEPT !.op = "warm_start", !.x_wm = x_wm, !.y_wm = y_wm,
                              !.z_wm = z_wm]
    /\ nops' = [nops EXCEPT !.calls = @ + 1]
    /\ UNCHANGED <<qpmodel, qpwork, ruiz, loc, pc, budget>>

\* update_proximal_parameters(results, rho_new, mu_eq_new, mu_in_new)
update_proximal_parameters(results, rho_new, mu_eq_new, mu_in_new) ==
    LET r1 == IF rho_new # nullopt
              THEN [results EXCEPT !.info.rho = value(rho_new)]
              ELSE results
        r2 == IF mu_eq_new # nullopt
              THEN [r1 EXCEPT !.info.mu_eq = value(mu_eq_new),
                              !.info.mu_eq_inv = RDiv(<<1, 1>>, value(mu_eq_new))]
              ELSE r1
    IN  IF mu_in_new # nullopt
        THEN [r2 EXCEPT !.info.mu_in = value(mu_in_new),
                        !.info.mu_in_inv = RDiv(<<1, 1>>, value(mu_in_new))]
        ELSE r2

UpdateProximalParameters(rho_new, mu_eq_new, mu_in_new) ==
    /\ CanCall
    /\ qpresults' = update_proximal_parameters(qpresults, rho_new, mu_eq_new, mu_in_new)
    /\ last' = [NoCall EXCEPT !.op = "update_proximal_parameters"]
    /\ nops' = [nops EXCEPT !.calls = @ + 1]
    /\ UNCHANGED <<qpsettings, qpmodel, qpwork, ruiz, loc, pc, budget>>

\* an optional argument: absent, or the given value
Opt(v) == {nullopt, Some(v)}

\* the argument lists of update: every combination of present and absent fields
UpdateArgs ==
    LET r == Replacement(qpmodel.n_eq, qpmodel.n_in)
    IN  Opt(r.H) \X Opt(r.g) \X Opt(r.A) \X Opt(r.b) \X Opt(r.C) \X Opt(r.u) \X Opt(r.l)

\* the argument lists of warm_start
WarmStartArgs ==
    Opt([i \in 1..qpmodel.dim |-> 1]) \X Opt([i \in 1..qpmodel.n_eq |-> 1])
        \X Opt([i \in 1..qpmodel.n_in |-> -1])

-----------------------------------------------------------------------------
(* line_search.hpp: active_set_change (the bijection map and the factorization
   follow a new active set: removals in descending slot order, then
   insertions at slot n_c in ascending row index) *)

\* the number of elements of S smaller than v under the key f
RankIn(S, f, v) == Cardinality({e \in S : f[e] < f[v]})

RECURSIVE remove_slots(_, _, _)
\* remove_at for every slot of the set, largest slot first
remove_slots(M, slots, base) ==
    IF slots = {} THEN M
    ELSE LET j == CHOOSE a \in slots : \A c \in slots : c <= a
         IN  remove_slots(ldl_remove_at(M, base + j), slots \ {j}, base)

RECURSIVE insert_rows(_, _, _, _, _, _)
\* insert_at(n_c, col) for every row of the set, smallest row first
insert_rows(M, rows, n_c, model, results, work) ==
    IF rows = {} THEN M
    ELSE LET i == CHOOSE a \in rows : \A c \in rows : a <= c
             col == active_column(model, results, work, i, n_c,
                                  model.dim + model.n_eq + n_c + 1)
         IN  insert_rows(ldl_insert_at(M, model.dim + model.n_eq + n_c, col),
                         rows \ {i}, n_c + 1, model, results, work)

\* active_set_change: the workspace and n_c once the rows marked in
\* active_inequalities are exactly the rows the factorization holds
active_set_change(model, results, work, active_inequalities) ==
    LET I == 1..model.n_in
        map == work.current_bijection_map
        kept == {i \in I : map[i] < results.n_c /\ active_inequalities[i]}
        gone == {i \in I : map[i] < results.n_c /\ ~active_inequalities[i]}
        added == {i \in I : map[i] >= results.n_c /\ active_inequalities[i]}
        rest == {i \in I : ~active_inequalities[i]}
        ident == [i \in I |-> i]
        M1 == remove_slots(work.ldl, {map[i] : i \in gone}, model.dim + model.n_eq)
        M2 == insert_rows(M1, added, Cardinality(kept), model, results, work)
        n_c == Cardinality(kept) + Cardinality(added)
        newmap == [i \in I |->
                     IF i \in kept THEN RankIn(kept, map, i)
                     ELSE IF i \in added THEN Cardinality(kept) + RankIn(added, ident, i)
                     ELSE n_c + RankIn(rest, ident, i)]
    IN  [work |-> [work EXCEPT !.ldl = M2, !.current_bijection_map = newmap],
         n_c |-> n_c]

-----------------------------------------------------------------------------
(* solver.hpp: qp_solve, entry and the head of the outer loop *)

\* the stopping tolerance of the primal residual at the head of an iteration
rhs_pri(settings, work, eq_rhs_0, in_rhs_0) ==
    IF settings.eps_rel # 0
    THEN settings.eps_abs + settings.eps_rel *
             max2(max2(eq_rhs_0, in_rhs_0),
                  max2(max2(work.primal_feasibility_rhs_1_eq,
                            work.primal_feasibility_rhs_1_in_u),
                       work.primal_feasibility_rhs_1_in_l))
    ELSE settings.eps_abs

\* rhs_dua with the tolerance widened by a constant: a stopping test that
\* lets a dual residual above eps_abs + eps_rel * R_d pass
rhs_dua_loose(settings, work, rhs_0, rhs_1, rhs_3) ==
    settings.eps_abs + settings.eps_rel *
        max2(max2(rhs_3, rhs_0), max2(rhs_1, work.dual_feasibility_rhs_2)) + 5

\* the stopping tolerance of the dual residual at the head of an iteration
rhs_dua(settings, work, rhs_0, rhs_1, rhs_3) ==
    IF settings.eps_rel # 0
    THEN settings.eps_abs + settings.eps_rel *
             max2(max2(rhs_3, rhs_0), max2(rhs_1, work.dual_feasibility_rhs_2))
    ELSE settings.eps_abs

\* the Solved exits: x, y, z are unscaled and the objective is evaluated
unscale_and_objective(model, results, r) ==
    LET x == unscale_primal_in_place(r, results.x)
    IN  [results EXCEPT !.x = x,
                        !.y = unscale_dual_in_place_eq(r, results.y),
                        !.z = unscale_dual_in_place_in(r, results.z),
                        !.info.objValue = objective(model, x)]

\* the residual norms a pair of evaluations leaves in the locals
WithDual(l, du) ==
    [l EXCEPT !.dual_feasibility_rhs_0 = du.dual_feasibility_rhs_0,
              !.dual_feasibility_rhs_1 = du.dual_feasibility_rhs_1,
              !.dual_feasibility_rhs_3 = du.dual_feasibility_rhs_3]

WithPrimal(l, pr) ==
    [l EXCEPT !.primal_feasibility_eq_rhs_0 = pr.primal_feasibility_eq_rhs_0,
              !.primal_feasibility_in_rhs_0 = pr.primal_feasibility_in_rhs_0]

\* a correction guess that is never run after an initial guess
do_correction_guess_first_only(do_initial_guess_fact, err_in, bcl_eta_in, n_in) ==
    ~do_initial_guess_fact /\ n_in # 0

\* do_correction_guess of qp_solve
do_correction_guess(do_initial_guess_fact, err_in, bcl_eta_in, n_in) ==
    \/ ~do_initial_guess_fact /\ n_in # 0
    \/ do_initial_guess_fact /\ RLeq(bcl_eta_in, err_in) /\ n_in # 0

\* qp_solve is entered: the locals are initialised
SolveBegin ==
    /\ CanCall
    /\ Len(qpwork.ldl) = qpmodel.dim + qpmodel.n_eq + qpresults.n_c
    /\ loc' = [LocIdle EXCEPT
                 !.n_ext_entry = qpresults.info.n_ext,
                 !.bcl_eta_ext_init = RPow(<<1, 10>>, qpsettings.alpha_bcl),
                 !.bcl_eta_ext = RPow(<<1, 10>>, qpsettings.alpha_bcl),
                 !.bcl_eta_in = <<1, 1>>,
                 !.eps_in_min = RMin(RInt(qpsettings.eps_abs), <<1, 1000000000>>)]
    /\ pc' = "outer"
    /\ last' = [NoCall EXCEPT
                  !.op = "solve",
                  !.resolve = /\ last.op = "setup"
                              /\ last.resolve
                              /\ last.policy = "WARM_START_WITH_PREVIOUS_RESULT",
                  !.sol = last.sol,
                  !.matrix_update = /\ last.op = "update"
                                    /\ \/ last.H_ # nullopt
                                       \/ last.A_ # nullopt
                                       \/ last.C_ # nullopt]
    /\ nops.solves < budget.solves
    /\ nops' = [calls |-> nops.calls + 1, solves |-> nops.solves + 1]
    /\ UNCHANGED <<qpsettings, qpmodel, qpresults, qpwork, ruiz, budget>>

\* one pass through the head of the outer loop: the iteration bound, the
\* residuals, the stopping test, the refactorization trigger, x_prev/y_prev/z_prev
\* a refactorization test that does not look at the primal residual
refactor_trigger_any_primal(settings, results, is_primal_feasible, dual_feasibility_lhs) ==
    /\ RLeq(settings.refactor_dual_feasibility_threshold, RInt(dual_feasibility_lhs))
    /\ results.info.rho # settings.refactor_rho_threshold

\* the test that guards refactorize at the head of an outer iteration
refactor_trigger(settings, results, is_primal_feasible, dual_feasibility_lhs) ==
    /\ is_primal_feasible
    /\ RLeq(settings.refactor_dual_feasibility_threshold, RInt(dual_feasibility_lhs))
    /\ results.info.rho # settings.refactor_rho_threshold

OuterHead ==
    /\ pc = "outer"
    /\ LET res0 == [qpresults EXCEPT !.info.n_ext = @ + 1]
       IN  IF loc.iter = qpsettings.max_iter
           THEN /\ qpresults' = res0
                /\ loc' = [loc EXCEPT !.exit = "MaxIter"]
                /\ pc' = "epilogue"
                /\ UNCHANGED qpwork
           ELSE LET pr == global_primal_residual(qpmodel, res0, qpwork, ruiz)
                    du == global_dual_residual(qpmodel, res0, qpwork, ruiz)
                    is_primal_feasible ==
                        pr.primal_feasibility_lhs <=
                            rhs_pri(qpsettings, qpwork, pr.primal_feasibility_eq_rhs_0,
                                    pr.primal_feasibility_in_rhs_0)
                    is_dual_feasible ==
                        du.dual_feasibility_lhs <=
                            rhs_dua(qpsettings, qpwork, du.dual_feasibility_rhs_0,
                                    du.dual_feasibility_rhs_1, du.dual_feasibility_rhs_3)
                    rho_new == qpsettings.refactor_rho_threshold
                    trigger == refactor_trigger(qpsettings, res0, is_primal_feasible,
                                                du.dual_feasibility_lhs)
                    w1 == IF trigger THEN refactorize(qpmodel, res0, qpwork, rho_new)
                          ELSE qpwork
                    res1 == IF trigger THEN [res0 EXCEPT !.info.rho = rho_new] ELSE res0
                    do_ig == \/ RLt(RInt(pr.primal_feasibility_lhs), qpsettings.eps_IG)
                             \/ qpmodel.n_in = 0
                    l1 == [WithDual(WithPrimal(loc, pr), du) EXCEPT
                             !.primal_feasibility_lhs = pr.primal_feasibility_lhs,
                             !.dual_feasibility_lhs = du.dual_feasibility_lhs,
                             !.new_bcl_mu_in = res0.info.mu_in,
                             !.new_bcl_mu_eq = res0.info.mu_eq,
                             !.new_bcl_mu_in_inv = res0.info.mu_in_inv,
                             !.new_bcl_mu_eq_inv = res0.info.mu_eq_inv,
                             !.is_primal_feasible = is_primal_feasible,
                             !.is_dual_feasible = is_dual_feasible,
                             !.n_initial_guess = 0, !.n_newton = 0]
                IN  IF is_primal_feasible /\ is_dual_feasible
                    THEN /\ qpresults' = unscale_and_objective(qpmodel, res1, ruiz)
                         /\ qpwork' = w1
                         /\ loc' = [l1 EXCEPT !.exit = "SolvedTop", !.n_unscale = @ + 1]
                         /\ pc' = "epilogue"
                    ELSE /\ qpresults' = res1
                         /\ qpwork' = [w1 EXCEPT !.x_prev = res1.x, !.y_prev = res1.y,
                                                 !.z_prev = res1.z]
                         /\ loc' = [l1 EXCEPT !.do_initial_guess_fact = do_ig,
                                              !.err_in = <<0, 1>>]
                         /\ pc' = IF do_ig THEN "initial_guess" ELSE "correction_guess"
    /\ UNCHANGED <<qpsettings, qpmodel, ruiz, last, nops, budget>>

-----------------------------------------------------------------------------
(* solver.hpp: iterative_solve_with_permut_fact.  The triangular solves are
   the LDLT engine's; the residual norm each of them leaves is any of ErrVals *)

\* the residual norms a solve with the factorization can leave
ErrVals == {<<0, 1>>, <<1, 1>>, <<2, 1>>}

\* the locals of the linear solve at a call with tolerance eps
CallLinearSolve(l, eps, inner_pb_dim, ret) ==
    [l EXCEPT !.ret = ret, !.eps = eps, !.inner_pb_dim = inner_pb_dim,
              !.it = 0, !.it_stability = 0,
              !.err = <<0, 1>>, !.preverr = <<0, 1>>, !.pass = 1, !.n_refine = 0]

\* the first solve and its residual
LsFirstSolve(e) ==
    /\ pc = "ls_solve"
    /\ qpwork' = [qpwork EXCEPT !.dw_aug = head_fill(@, loc.inner_pb_dim, 1)]
    /\ loc' = [loc EXCEPT !.it = 1, !.err = e, !.preverr = e]
    /\ pc' = "ls_loop"
    /\ UNCHANGED <<qpsettings, qpmodel, qpresults, ruiz, last, nops, budget>>

\* LsRefine without the test of it against nb_iterative_refinement
LsRefine_unbounded(e) ==
    /\ pc = "ls_loop"
    /\ RLeq(loc.eps, loc.err)
    /\ loc.it < 2 * qpsettings.nb_iterative_refinement + 3
    /\ loc' = [loc EXCEPT !.it = @ + 1, !.err = e, !.preverr = e, !.n_refine = @ + 1]
    /\ pc' = "ls_loop"
    /\ UNCHANGED <<qpsettings, qpmodel, qpresults, qpwork, ruiz, last, nops, budget>>

\* LsRefine counting a pass whose residual stays equal as a stalled pass
LsRefine_nondecreasing(e) ==
    /\ pc = "ls_loop"
    /\ RLeq(loc.eps, loc.err)
    /\ loc.it < qpsettings.nb_iterative_refinement
    /\ LET it_stability == IF RLeq(loc.preverr, e) THEN loc.it_stability + 1 ELSE 0
       IN  /\ loc' = [loc EXCEPT !.it = @ + 1, !.err = e,
                                 !.it_stability = it_stability,
                                 !.preverr = IF it_stability = 2 THEN @ ELSE e,
                                 !.n_refine = @ + 1]
           /\ pc' = IF it_stability = 2 THEN "ls_after" ELSE "ls_loop"
    /\ UNCHANGED <<qpsettings, qpmodel, qpresults, qpwork, ruiz, last, nops, budget>>

\* one pass of the refinement loop
LsRefine(e) ==
    /\ pc = "ls_loop"
    /\ RLeq(loc.eps, loc.err)
    /\ loc.it < qpsettings.nb_iterative_refinement
    /\ LET it_stability == IF RLt(loc.preverr, e) THEN loc.it_stability + 1 ELSE 0
       IN  /\ loc' = [loc EXCEPT !.it = @ + 1, !.err = e,
                                 !.it_stability = it_stability,
                                 !.preverr = IF it_stability = 2 THEN @ ELSE e,
                                 !.n_refine = @ + 1]
           /\ pc' = IF it_stability = 2 THEN "ls_after" ELSE "ls_loop"
    /\ UNCHANGED <<qpsettings, qpmodel, qpresults, qpwork, ruiz, last, nops, budget>>

\* the refinement loop is over: at its test, or by the break on it_stability
loop_over(l, settings, p) ==
    \/ p = "ls_after"
    \/ p = "ls_loop"
          /\ ~(RLeq(l.eps, l.err) /\ l.it < settings.nb_iterative_refinement)

\* LsRefactorize taken again whenever the residual is still too large
LsRefactorize_repeating(e) ==
    /\ loop_over(loc, qpsettings, pc)
    /\ loc.pass \in {1, 2}
    /\ RLeq(RMax(loc.eps, qpsettings.eps_refact), loc.err)
    /\ qpwork' = [qpwork EXCEPT
                    !.ldl = reinsert_active(qpwork.kkt, qpmodel, qpresults, qpwork, 0),
                    !.dw_aug = head_fill(Zeros(Len(@)), loc.inner_pb_dim, 1)]
    /\ loc' = [loc EXCEPT !.it = 1, !.it_stability = 0, !.err = e, !.preverr = e,
                          !.pass = 2]
    /\ pc' = "ls_loop"
    /\ UNCHANGED <<qpsettings, qpmodel, qpresults, ruiz, last, nops, budget>>

\* the fallback: the factorization is rebuilt from qpwork.kkt, the active
\* inequalities are re-inserted, and the solve and the loop run once more
LsRefactorize(e) ==
    /\ loop_over(loc, qpsettings, pc)
    /\ loc.pass = 1
    /\ RLeq(RMax(loc.eps, qpsettings.eps_refact), loc.err)
    /\ LET n == qpmodel.dim
           kkt == [i \in 1..Len(qpwork.kkt) |-> [j \in 1..Len(qpwork.kkt) |->
                     IF i = j /\ i > n /\ i <= n + qpmodel.n_eq
                     THEN RNeg(qpresults.info.mu_eq_inv)
                     ELSE qpwork.kkt[i][j]]]
       IN  qpwork' = [qpwork EXCEPT
                        !.kkt = kkt,
                        !.ldl = reinsert_active(kkt, qpmodel, qpresults, qpwork, 0),
                        !.dw_aug = head_fill(Zeros(Len(@)), loc.inner_pb_dim, 1)]
    /\ loc' = [loc EXCEPT !.it = 1, !.it_stability = 0, !.err = e, !.preverr = e,
                          !.pass = 2]
    /\ pc' = "ls_loop"
    /\ UNCHANGED <<qpsettings, qpmodel, qpresults, ruiz, last, nops, budget>>

\* LsReturn taken as soon as the first loop is over, whatever the residual
LsReturn_unchecked ==
    /\ loop_over(loc, qpsettings, pc)
    /\ qpwork' = [qpwork EXCEPT !.rhs = head_fill(@, loc.inner_pb_dim, 0)]
    /\ loc' = [loc EXCEPT !.ret = "none", !.eps = <<0, 1>>, !.inner_pb_dim = 0,
                          !.it = 0, !.it_stability = 0, !.err = <<0, 1>>,
                          !.preverr = <<0, 1>>, !.pass = 0, !.n_refine = 0]
    /\ pc' = loc.ret
    /\ UNCHANGED <<qpsettings, qpmodel, qpresults, ruiz, last, nops, budget>>

\* the linear solve returns to its caller
LsReturn ==
    /\ loop_over(loc, qpsettings, pc)
    /\ loc.pass = 2 \/ ~RLeq(RMax(loc.eps, qpsettings.eps_refact), loc.err)
    /\ qpwork' = [qpwork EXCEPT !.rhs = head_fill(@, loc.inner_pb_dim, 0)]
    /\ loc' = [loc EXCEPT !.ret = "none", !.eps = <<0, 1>>, !.inner_pb_dim = 0,
                          !.it = 0, !.it_stability = 0, !.err = <<0, 1>>,
                          !.preverr = <<0, 1>>, !.pass = 0, !.n_refine = 0]
    /\ pc' = loc.ret
    /\ UNCHANGED <<qpsettings, qpmodel, qpresults, ruiz, last, nops, budget>>

-----------------------------------------------------------------------------
(* solver.hpp: initial_guess, correction_guess, newton_step.  The step the
   linear solve and the line search produce is any vector over Vals *)

\* row i is active when shifted - bound lies on the outer side of the bound
ActiveUp(val, zterm, bound, strict) ==
    LET v == RAdd(RInt(val - bound), zterm)
    IN  IF strict THEN RLt(<<0, 1>>, v) ELSE RLeq(<<0, 1>>, v)

ActiveLow(val, zterm, bound, strict) ==
    LET v == RAdd(RInt(val - bound), zterm)
    IN  IF strict THEN RLt(v, <<0, 1>>) ELSE RLeq(v, <<0, 1>>)

\* initial_guess: active_inequalities, from the unscaled C x + ze / mu_in
initial_guess_active(model, results, work, r, x, ze_scaled) ==
    LET Cx == unscale_primal_residual_in_place_in(r, MatVec(work.C_scaled, x))
        ze == unscale_dual_in_place_in(r, ze_scaled)
    IN  [i \in 1..model.n_in |->
            LET zt == RMul(RInt(ze[i]), results.info.mu_in_inv)
            IN  [up |-> ActiveUp(Cx[i], zt, model.u[i], FALSE),
                 low |-> ActiveLow(Cx[i], zt, model.l[i], FALSE)]]

\* initial_guess after the line search: active sets from the scaled residuals
initial_guess_active_after(model, results, work, x, ze_scaled) ==
    LET Cx == MatVec(work.C_scaled, x)
    IN  [i \in 1..model.n_in |->
            LET zt == RMul(RInt(ze_scaled[i]), results.info.mu_in_inv)
            IN  [up |-> ActiveUp(Cx[i], zt, work.u_scaled[i], FALSE),
                 low |-> ActiveLow(Cx[i], zt, work.l_scaled[i], FALSE)]]

\* newton_step: active_inequalities, from the scaled shifted residuals
newton_active(model, results, work, x, z_shift) ==
    LET Cx == MatVec(work.C_scaled, x)
    IN  [i \in 1..model.n_in |->
            LET zt == RMul(RInt(z_shift[i]), results.info.mu_in_inv)
            IN  [up |-> ActiveUp(Cx[i], zt, work.u_scaled[i], TRUE),
                 low |-> ActiveLow(Cx[i], zt, work.l_scaled[i], TRUE)]]

\* initial_guess, up to the call of the linear solve
InitialGuessBegin ==
    /\ pc = "initial_guess"
    /\ LET act == initial_guess_active(qpmodel, qpresults, qpwork, ruiz, qpresults.x,
                                       qpwork.z_prev)
           c == active_set_change(qpmodel, qpresults, qpwork,
                                  [i \in 1..qpmodel.n_in |-> act[i].up \/ act[i].low])
       IN  /\ qpwork' = [c.work EXCEPT
                            !.active_inequalities =
                                [i \in 1..qpmodel.n_in |-> act[i].up \/ act[i].low],
                            !.rhs = head_fill(Zeros(Len(@)),
                                              qpmodel.dim + qpmodel.n_eq + c.n_c, 1)]
           /\ qpresults' = [qpresults EXCEPT !.n_c = c.n_c]
           /\ loc' = CallLinearSolve(loc, loc.bcl_eta_in,
                                     qpmodel.dim + qpmodel.n_eq + c.n_c,
                                     "initial_guess_end")
    /\ pc' = "ls_solve"
    /\ UNCHANGED <<qpsettings, qpmodel, ruiz, last, nops, budget>>

\* a multiplier candidate whose step is zero on a row the map holds inactive
inactive_candidate_kept(z_i, alpha) == z_i

\* initial_guess: the candidate z_i + alpha dz_i of a row the bijection map
\* holds inactive, whose step dz_i is -z_i
inactive_candidate(z_i, alpha) == z_i + alpha * (0 - z_i)

\* initial_guess, after the linear solve: the step permuted back through the
\* bijection map, the line search, the new iterate, the saddle-point error;
\* then n_tot and do_correction_guess in qp_solve
InitialGuessEnd(alpha, xn, yn, zc, e) ==
    /\ pc = "initial_guess_end"
    /\ alpha = 0 => xn = qpresults.x /\ yn = qpresults.y /\ zc = qpresults.z
                    /\ e = <<1, 1>>
    /\ \A i \in 1..qpmodel.n_in :
          qpwork.current_bijection_map[i] >= qpresults.n_c
              => zc[i] = inactive_candidate(qpresults.z[i], alpha)
    /\ LET act == initial_guess_active_after(qpmodel, qpresults, qpwork, xn,
                                             qpwork.z_prev)
       IN  qpwork' = [qpwork EXCEPT
                        !.active_inequalities =
                            [i \in 1..qpmodel.n_in |-> act[i].up \/ act[i].low],
                        !.dw_aug = Zeros(Len(@))]
    /\ LET act == initial_guess_active_after(qpmodel, qpresults, qpwork, xn,
                                             qpwork.z_prev)
           z == [i \in 1..qpmodel.n_in |->
                   IF act[i].up /\ act[i].low THEN positive_part(zc)[i] + negative_part(zc)[i]
                   ELSE IF act[i].up THEN positive_part(zc)[i]
                   ELSE IF act[i].low THEN negative_part(zc)[i]
                   ELSE zc[i]]
           err_saddle_point == IF alpha = 0 THEN <<1, 1>> ELSE e
       IN  /\ qpresults' = [qpresults EXCEPT !.x = xn, !.y = yn, !.z = z,
                                             !.info.n_tot = @ + 1]
           /\ loc' = [loc EXCEPT !.err_in = err_saddle_point, !.alpha = alpha,
                                 !.n_initial_guess = @ + 1]
           /\ pc' = IF do_correction_guess(loc.do_initial_guess_fact, err_saddle_point,
                                           loc.bcl_eta_in, qpmodel.n_in)
                    THEN "correction_guess" ELSE "post"
    /\ UNCHANGED <<qpsettings, qpmodel, ruiz, last, nops, budget>>

\* the residual buffers are prepared and correction_guess is entered
CorrectionGuessBegin ==
    /\ pc = "correction_guess"
    /\ loc' = [loc EXCEPT !.err_in = <<1000000, 1>>, !.iter_in = 0,
                          !.z_shift = IF loc.do_initial_guess_fact
                                      THEN VAdd(qpwork.z_prev, qpresults.z)
                                      ELSE qpwork.z_prev]
    /\ pc' = "newton"
    /\ UNCHANGED <<qpsettings, qpmodel, qpresults, qpwork, ruiz, last, nops, budget>>

\* the head of the loop of correction_guess and newton_step up to the linear solve
NewtonBegin ==
    /\ pc = "newton"
    /\ IF loc.iter_in = qpsettings.max_iter_in
       THEN /\ qpresults' = [qpresults EXCEPT !.info.n_tot = @ + qpsettings.max_iter_in]
            /\ loc' = [loc EXCEPT !.iter_in = 0, !.z_shift = <<>>]
            /\ pc' = "post"
            /\ UNCHANGED qpwork
       ELSE LET act == newton_active(qpmodel, qpresults, qpwork, qpresults.x, loc.z_shift)
                c == active_set_change(qpmodel, qpresults, qpwork,
                                       [i \in 1..qpmodel.n_in |-> act[i].up \/ act[i].low])
            IN  /\ qpwork' = [c.work EXCEPT
                                 !.active_inequalities =
                                     [i \in 1..qpmodel.n_in |-> act[i].up \/ act[i].low],
                                 !.rhs = head_fill(Zeros(Len(@)), qpmodel.dim, 1),
                                 !.dw_aug = Zeros(Len(@))]
                /\ qpresults' = [qpresults EXCEPT !.n_c = c.n_c]
                /\ loc' = [CallLinearSolve(loc, loc.bcl_eta_in,
                                           qpmodel.dim + qpmodel.n_eq + c.n_c,
                                           "newton_end")
                               EXCEPT !.n_newton = @ + 1]
                /\ pc' = "ls_solve"
    /\ UNCHANGED <<qpsettings, qpmodel, ruiz, last, nops, budget>>

\* |p| for a rational p
RAbs(p) == <<Abs(p[1]), p[2]>>

\* the larger of the rationals of a non-empty sequence, 0 for the empty one
RECURSIVE RMaxSeq(_)
RMaxSeq(s) == IF s = <<>> THEN <<0, 1>> ELSE RMax(Head(s), RMaxSeq(Tail(s)))

\* an inner error whose scale is one plus the sum of the three norms
correction_guess_error_sum(model, results, work, x, y, z) ==
    LET Hx == MatVec(work.H_scaled, x)
        ATy == MatTVec(work.A_scaled, y, model.dim)
        CTz == MatTVec(work.C_scaled, z, model.dim)
        d == VAdd(VAdd(VAdd(Hx, ATy), CTz), work.g_scaled)
        dx == VSub(x, work.x_prev)
        dual == [j \in 1..model.dim |->
                    RAbs(RAdd(RInt(d[j]), RMul(results.info.rho, RInt(dx[j]))))]
    IN  [err_in |-> RMaxSeq(dual),
         rhs_c |-> infty_norm(Hx) + infty_norm(ATy) + infty_norm(CTz) + 1]

\* correction_guess: err_in and rhs_c at the iterate x, y, z
correction_guess_error(model, results, work, x, y, z) ==
    LET Hx == MatVec(work.H_scaled, x)
        ATy == MatTVec(work.A_scaled, y, model.dim)
        CTz == MatTVec(work.C_scaled, z, model.dim)
        d == VAdd(VAdd(VAdd(Hx, ATy), CTz), work.g_scaled)
        dx == VSub(x, work.x_prev)
        dual == [j \in 1..model.dim |->
                    RAbs(RAdd(RInt(d[j]), RMul(results.info.rho, RInt(dx[j]))))]
    IN  [err_in |-> RMaxSeq(dual),
         rhs_c |-> max2(max2(max2(work.correction_guess_rhs_g, infty_norm(Hx)),
                             infty_norm(ATy)), infty_norm(CTz)) + 1]

\* correction_guess, after the linear solve: the line search, the step-size
\* test, the new iterate and the inner stopping test
NewtonEnd(xn, yn, zn) ==
    /\ pc = "newton_end"
    /\ IF infty_norm(VSub(xn, qpresults.x)) < 1
       THEN /\ yn = qpresults.y /\ zn = qpresults.z
            /\ qpresults' = [qpresults EXCEPT !.info.n_tot = @ + loc.iter_in + 1]
            /\ loc' = [loc EXCEPT !.iter_in = 0, !.z_shift = <<>>]
            /\ pc' = "post"
       ELSE LET c == correction_guess_error(qpmodel, qpresults, qpwork, xn, yn, zn)
                stop == RLeq(c.err_in, RMul(loc.bcl_eta_in, RInt(c.rhs_c)))
            IN  /\ qpresults' = [qpresults EXCEPT
                                   !.x = xn, !.y = yn, !.z = zn,
                                   !.info.n_tot = IF stop THEN @ + loc.iter_in + 1 ELSE @]
                /\ loc' = [loc EXCEPT !.err_in = c.err_in,
                                      !.iter_in = IF stop THEN 0 ELSE @ + 1,
                                      !.z_shift = IF stop THEN <<>> ELSE @]
                /\ pc' = IF stop THEN "post" ELSE "newton"
    /\ UNCHANGED <<qpsettings, qpmodel, qpwork, ruiz, last, nops, budget>>

-----------------------------------------------------------------------------
(* solver.hpp: qp_solve, after the step *)

\* the residuals at the new iterate and the second stopping test
PostStep ==
    /\ pc = "post"
    /\ LET pr == global_primal_residual(qpmodel, qpresults, qpwork, ruiz)
           du == global_dual_residual(qpmodel, qpresults, qpwork, ruiz)
           is_primal_feasible ==
               pr.primal_feasibility_lhs <=
                   qpsettings.eps_abs + qpsettings.eps_rel *
                       max2(max2(pr.primal_feasibility_eq_rhs_0,
                                 pr.primal_feasibility_in_rhs_0),
                            max2(max2(qpwork.primal_feasibility_rhs_1_eq,
                                      qpwork.primal_feasibility_rhs_1_in_u),
                                 qpwork.primal_feasibility_rhs_1_in_l))
           is_dual_feasible ==
               du.dual_feasibility_lhs <=
                   qpsettings.eps_abs + qpsettings.eps_rel *
                       max2(max2(du.dual_feasibility_rhs_3, du.dual_feasibility_rhs_0),
                            max2(du.dual_feasibility_rhs_1, qpwork.dual_feasibility_rhs_2))
           l1 == [WithPrimal(loc, pr) EXCEPT
                     !.primal_feasibility_lhs_new = pr.primal_feasibility_lhs,
                     !.is_primal_feasible = is_primal_feasible]
           l2 == IF is_primal_feasible
                 THEN [WithDual(l1, du) EXCEPT
                          !.dual_feasibility_lhs_new = du.dual_feasibility_lhs,
                          !.is_dual_feasible = is_dual_feasible]
                 ELSE l1
       IN  IF is_primal_feasible /\ is_dual_feasible
           THEN /\ qpresults' = unscale_and_objective(qpmodel, qpresults, ruiz)
                /\ loc' = [l2 EXCEPT !.exit = "SolvedPost", !.n_unscale = @ + 1]
                /\ pc' = "epilogue"
           ELSE /\ qpresults' = qpresults
                /\ loc' = l2
                /\ pc' = "bcl"
    /\ UNCHANGED <<qpsettings, qpmodel, qpwork, ruiz, last, nops, budget>>

\* a / max2(b, machine_eps) >= 1 for residual norms a, b
ratio_geq_one(a, b) == IF b > 0 THEN a >= b ELSE a > 0

\* a cold-restart test without the condition on mu_in
cold_restart_any_mu(primal_feasibility_lhs_new, dual_feasibility_lhs_new, primal_feasibility_lhs, results) ==
    /\ ratio_geq_one(primal_feasibility_lhs_new, primal_feasibility_lhs)
    /\ ratio_geq_one(dual_feasibility_lhs_new, primal_feasibility_lhs)

\* a counter of outer iterations that reach the mu update
n_mu_change_every_iteration(results, new_bcl_mu_in, new_bcl_mu_eq) ==
    results.info.n_mu_change + 1

\* the cold-restart test on the residual norms after the step and the
\* penalty in use
cold_restart(primal_feasibility_lhs_new, dual_feasibility_lhs_new, primal_feasibility_lhs, results) ==
    /\ ratio_geq_one(primal_feasibility_lhs_new, primal_feasibility_lhs)
    /\ ratio_geq_one(dual_feasibility_lhs_new, primal_feasibility_lhs)
    /\ RLeq(<<100000, 1>>, results.info.mu_in)

\* n_mu_change after the comparison of the penalties in use with the new ones
n_mu_change_after(results, new_bcl_mu_in, new_bcl_mu_eq) ==
    IF results.info.mu_in # new_bcl_mu_in \/ results.info.mu_eq # new_bcl_mu_eq
    THEN results.info.n_mu_change + 1
    ELSE results.info.n_mu_change

\* bcl_update, the cold restart, n_mu_change and mu_update; the iteration ends
BclStep ==
    /\ pc = "bcl"
    /\ LET b == bcl_update(qpsettings, qpresults, qpwork, loc.primal_feasibility_lhs_new,
                           loc)
           res1 == [qpresults EXCEPT !.y = b.y, !.z = b.z]
           du == global_dual_residual(qpmodel, res1, qpwork, ruiz)
           cold == cold_restart(loc.primal_feasibility_lhs_new, du.dual_feasibility_lhs,
                                loc.primal_feasibility_lhs, res1)
           new_bcl_mu_in == IF cold THEN qpsettings.cold_reset_mu_in ELSE b.new_bcl_mu_in
           new_bcl_mu_eq == IF cold THEN qpsettings.cold_reset_mu_eq ELSE b.new_bcl_mu_eq
           new_bcl_mu_in_inv ==
               IF cold THEN qpsettings.cold_reset_mu_in_inv ELSE b.new_bcl_mu_in_inv
           new_bcl_mu_eq_inv ==
               IF cold THEN qpsettings.cold_reset_mu_eq_inv ELSE b.new_bcl_mu_eq_inv
       IN  /\ qpwork' = mu_update(qpmodel, res1, qpwork, new_bcl_mu_eq_inv,
                                  new_bcl_mu_in_inv)
           /\ qpresults' = [res1 EXCEPT
                              !.info.n_mu_change =
                                  n_mu_change_after(res1, new_bcl_mu_in, new_bcl_mu_eq),
                              !.info.mu_eq = new_bcl_mu_eq,
                              !.info.mu_in = new_bcl_mu_in,
                              !.info.mu_eq_inv = new_bcl_mu_eq_inv,
                              !.info.mu_in_inv = new_bcl_mu_in_inv]
           /\ loc' = [WithDual(loc, du) EXCEPT
                        !.dual_feasibility_lhs_new = du.dual_feasibility_lhs,
                        !.bcl_eta_ext = b.bcl_eta_ext,
                        !.bcl_eta_in = b.bcl_eta_in,
                        !.new_bcl_mu_in = new_bcl_mu_in,
                        !.new_bcl_mu_eq = new_bcl_mu_eq,
                        !.new_bcl_mu_in_inv = new_bcl_mu_in_inv,
                        !.new_bcl_mu_eq_inv = new_bcl_mu_eq_inv,
                        !.iter = @ + 1]
    /\ pc' = "outer"
    /\ UNCHANGED <<qpsettings, qpmodel, ruiz, last, nops, budget>>

\* after the loop: the objective value is evaluated at qpresults.x
Epilogue ==
    /\ pc = "epilogue"
    /\ qpresults' = [qpresults EXCEPT !.info.objValue = objective(qpmodel, qpresults.x)]
    /\ pc' = "done"
    /\ UNCHANGED <<qpsettings, qpmodel, qpwork, ruiz, loc, last, nops, budget>>

\* qp_solve returns
SolveReturn ==
    /\ pc = "done"
    /\ pc' = "idle"
    /\ loc' = LocIdle
    /\ last' = [last EXCEPT !.exit = loc.exit]
    /\ UNCHANGED <<qpsettings, qpmodel, qpresults, qpwork, ruiz, nops, budget>>

-----------------------------------------------------------------------------
(* The specification: interface calls in any order, a solve run to its end *)

\* the argument lists of update offered between solves
-----------------------------------------------------------------------------
(* helpers.hpp: initial_guess and compute_equality_constrained_initial_guess.
   In this call the entries of qpwork.rhs are the values the code writes *)

\* a switch that computes the initial guess under every policy
computes_initial_guess_any(policy) == TRUE

\* the switch of initial_guess: the policy for which an initial guess is computed
computes_initial_guess(policy) == policy = "EQUALITY_CONSTRAINED_INITIAL_GUESS"

\* the right-hand side of the equality-constrained initial guess
equality_constrained_rhs(work, model) ==
    [k \in 1..Len(work.rhs) |->
        IF k <= model.dim THEN 0 - work.g_scaled[k]
        ELSE IF k <= model.dim + model.n_eq THEN work.b_scaled[k - model.dim]
        ELSE 0]

\* the solution kept in x only
store_initial_guess_x_only(results, dx, dy) == [results EXCEPT !.x = dx]

\* the solution dw_aug = (dx, dy) of the linear solve is stored in x and y
store_initial_guess(results, dx, dy) == [results EXCEPT !.x = dx, !.y = dy]

\* initial_guess(work, settings, model, results), up to the linear solve; the
\* solve needs a factorization of dimension dim + n_eq
InitialGuess ==
    /\ CanCall
    /\ qpresults.n_c = 0
    /\ Len(qpwork.ldl) = qpmodel.dim + qpmodel.n_eq
    /\ IF computes_initial_guess(qpsettings.initial_guess)
       THEN /\ qpwork' = [qpwork EXCEPT !.rhs = equality_constrained_rhs(qpwork, qpmodel)]
            /\ loc' = CallLinearSolve(loc, <<1, 1>>, qpmodel.dim + qpmodel.n_eq,
                                      "equality_constrained_end")
            /\ pc' = "ls_solve"
       ELSE UNCHANGED <<qpwork, loc, pc>>
    /\ last' = [NoCall EXCEPT !.op = "initial_guess", !.policy = qpsettings.initial_guess]
    /\ nops' = [nops EXCEPT !.calls = @ + 1]
    /\ UNCHANGED <<qpsettings, qpmodel, qpresults, ruiz, budget>>

\* compute_equality_constrained_initial_guess after the linear solve, whose
\* solution is (dx, dy); the record of the call keeps the solution
EqualityConstrainedEnd(dx, dy) ==
    /\ pc = "equality_constrained_end"
    /\ qpresults' = store_initial_guess(qpresults, dx, dy)
    /\ qpwork' = [qpwork EXCEPT !.dw_aug = Zeros(Len(@)), !.rhs = Zeros(Len(@))]
    /\ pc' = "idle"
    /\ last' = [last EXCEPT !.sol = <<dx, dy>>]
    /\ UNCHANGED <<qpsettings, qpmodel, ruiz, loc, nops, budget>>

UpdateChoices ==
    {a \in UpdateArgs :
        \/ a[1] # nullopt /\ \A k \in 2..7 : a[k] = nullopt
        \/ a[4] # nullopt /\ \A k \in {1, 2, 3, 5, 6, 7} : a[k] = nullopt
        \/ \A k \in 1..7 : a[k] # nullopt}

\* the iterates a step can produce
StepVecs == VecsOver({0, 1}, qpmodel.dim) \X VecsOver({0, 1}, qpmodel.n_eq)
                \X VecsOver({-1, 0}, qpmodel.n_in)

Next ==
    \/ \E id \in ProblemIds, st \in PreconditionerStatus,
          o \in RuizOutcomes(qpmodel.dim, qpmodel.n_eq, qpmodel.n_in) : Setup(id, st, o)
    \/ SetupFactorization
    \/ \E a \in UpdateChoices : Update(a[1], a[2], a[3], a[4], a[5], a[6], a[7])
    \/ \E a \in WarmStartArgs : WarmStart(a[1], a[2], a[3])
    \/ SolveBegin
    \/ OuterHead
    \/ InitialGuessBegin
    \/ \E alpha \in {0, 1}, v \in StepVecs, e \in ErrVals :
          InitialGuessEnd(alpha, v[1], v[2], v[3], e)
    \/ CorrectionGuessBegin
    \/ NewtonBegin
    \/ \E v \in StepVecs : NewtonEnd(v[1], v[2], v[3])
    \/ \E e \in ErrVals : LsFirstSolve(e)
    \/ \E e \in ErrVals : LsRefine(e)
    \/ \E e \in ErrVals : LsRefactorize(e)
    \/ LsReturn
    \/ PostStep
    \/ BclStep
    \/ Epilogue
    \/ SolveReturn

Spec == Init /\ [][Next]_vars

\* the re-solve scenario: sizes 1/1/1, policy WARM_START_WITH_PREVIOUS_RESULT,
\* room for setup, setup_factorization, solve, setup, solve
InitResolve ==
    /\ \E c \in {BaseSetting, <<1, 0, 1, MaxIterIn, MaxRefine>>} :
          Constructed(1, 1, 1, c, "WARM_START_WITH_PREVIOUS_RESULT")
    /\ budget = [calls |-> ResolveOps, solves |-> ResolveSolves]

SpecResolve == InitResolve /\ [][Next]_vars

\* update on every combination of present and absent arguments
InitUpdate ==
    /\ \E n \in DimSet, d \in NEqSet \X NInSet :
          Constructed(n, d[1], d[2], BaseSetting, "EQUALITY_CONSTRAINED_INITIAL_GUESS")
    /\ budget = [calls |-> UpdateOps, solves |-> 0]

NextUpdate ==
    \/ \E id \in ProblemIds, st \in PreconditionerStatus,
          o \in RuizOutcomes(qpmodel.dim, qpmodel.n_eq, qpmodel.n_in) : Setup(id, st, o)
    \/ \E a \in UpdateArgs : Update(a[1], a[2], a[3], a[4], a[5], a[6], a[7])

SpecUpdate == InitUpdate /\ [][NextUpdate]_vars

\* calls in one run of SpecBcl: setup, update_proximal_parameters,
\* setup_factorization, solve
BclOps == 4

\* the <<rho_new, mu_eq_new, mu_in_new>> offered to update_proximal_parameters:
\* mu_in = 1, mu_in at the cold-restart threshold, both penalties at their
\* maxima, rho at refactor_rho_threshold
ProximalChoices ==
    {<<nullopt, nullopt, Some(<<1, 1>>)>>,
     <<nullopt, nullopt, Some(<<100000, 1>>)>>,
     <<nullopt, Some(<<10000, 1>>), Some(<<1000000, 1>>)>>,
     <<Some(<<1, 1000>>), nullopt, nullopt>>}

\* the penalty scenario: one inequality, one outer iteration per solve, the
\* penalties set by the caller before the solve
InitBcl ==
    /\ \E c \in {<<1, 0, 1, MaxIterIn, MaxRefine>>, <<0, 1, 1, MaxIterIn, 0>>},
          n_eq \in NEqSet :
          Constructed(1, n_eq, 1, c, "WARM_START_WITH_PREVIOUS_RESULT")
    /\ budget = [calls |-> BclOps, solves |-> MaxSolves]

NextBcl ==
    \/ \E id \in ProblemIds, st \in PreconditionerStatus,
          o \in RuizOutcomes(qpmodel.dim, qpmodel.n_eq, qpmodel.n_in) : Setup(id, st, o)
    \/ SetupFactorization
    \/ \E a \in ProximalChoices : UpdateProximalParameters(a[1], a[2], a[3])
    \/ SolveBegin
    \/ OuterHead
    \/ InitialGuessBegin
    \/ \E alpha \in {0, 1}, v \in StepVecs, e \in ErrVals :
          InitialGuessEnd(alpha, v[1], v[2], v[3], e)
    \/ CorrectionGuessBegin
    \/ NewtonBegin
    \/ \E v \in StepVecs : NewtonEnd(v[1], v[2], v[3])
    \/ \E e \in ErrVals : LsFirstSolve(e)
    \/ \E e \in ErrVals : LsRefine(e)
    \/ \E e \in ErrVals : LsRefactorize(e)
    \/ LsReturn
    \/ PostStep
    \/ BclStep
    \/ Epilogue
    \/ SolveReturn

SpecBcl == InitBcl /\ [][NextBcl]_vars

\* the <<rho_new, mu_eq_new, mu_in_new>> of a caller that chooses a small
\* inequality penalty: mu_in = 1/2, mu_in = 2
WeakPenaltyChoices ==
    {<<nullopt, nullopt, Some(<<1, 2>>)>>,
     <<nullopt, nullopt, Some(<<2, 1>>)>>}

\* the small-penalty scenario: one inequality, solves of up to MaxIter outer
\* iterations, mu_in set by the caller before the solve
InitWeakPenalty ==
    /\ \E n_eq \in NEqSet :
          Constructed(1, n_eq, 1, <<1, 0, MaxIter, MaxIterIn, MaxRefine>>,
                      "WARM_START_WITH_PREVIOUS_RESULT")
    /\ budget = [calls |-> BclOps, solves |-> MaxSolves]

NextWeakPenalty ==
    \/ \E id \in ProblemIds, st \in PreconditionerStatus,
          o \in RuizOutcomes(qpmodel.dim, qpmodel.n_eq, qpmodel.n_in) : Setup(id, st, o)
    \/ SetupFactorization
    \/ \E a \in WeakPenaltyChoices : UpdateProximalParameters(a[1], a[2], a[3])
    \/ SolveBegin
    \/ OuterHead
    \/ InitialGuessBegin
    \/ \E alpha \in {0, 1}, v \in StepVecs, e \in ErrVals :
          InitialGuessEnd(alpha, v[1], v[2], v[3], e)
    \/ CorrectionGuessBegin
    \/ NewtonBegin
    \/ \E v \in StepVecs : NewtonEnd(v[1], v[2], v[3])
    \/ \E e \in ErrVals : LsFirstSolve(e)
    \/ \E e \in ErrVals : LsRefine(e)
    \/ \E e \in ErrVals : LsRefactorize(e)
    \/ LsReturn
    \/ PostStep
    \/ BclStep
    \/ Epilogue
    \/ SolveReturn

SpecWeakPenalty == InitWeakPenalty /\ [][NextWeakPenalty]_vars

\* the setting nb_iterative_refinement of the refinement scenario
RefineDepth == 4

\* the residual norms of the refinement scenario: wide enough for a residual
\* to grow twice in a row from the tolerance
ErrValsWide == {<<0, 1>>, <<1, 1>>, <<2, 1>>, <<3, 1>>}

\* the refinement scenario: one outer iteration, up to RefineDepth solves in
\* each pass of the inner linear solve
InitRefine ==
    /\ \E n_eq \in NEqSet :
          Constructed(1, n_eq, 1, <<1, 0, 1, MaxIterIn, RefineDepth>>,
                      "WARM_START_WITH_PREVIOUS_RESULT")
    /\ budget = [calls |-> BclOps, solves |-> 1]

NextRefine ==
    \/ \E id \in ProblemIds, st \in PreconditionerStatus,
          o \in RuizOutcomes(qpmodel.dim, qpmodel.n_eq, qpmodel.n_in) : Setup(id, st, o)
    \/ SetupFactorization
    \/ SolveBegin
    \/ OuterHead
    \/ InitialGuessBegin
    \/ \E alpha \in {0, 1}, v \in StepVecs, e \in ErrVals :
          InitialGuessEnd(alpha, v[1], v[2], v[3], e)
    \/ CorrectionGuessBegin
    \/ NewtonBegin
    \/ \E v \in StepVecs : NewtonEnd(v[1], v[2], v[3])
    \/ \E e \in ErrValsWide : LsFirstSolve(e)
    \/ \E e \in ErrValsWide : LsRefine(e)
    \/ \E e \in ErrValsWide : LsRefactorize(e)
    \/ LsReturn
    \/ PostStep
    \/ BclStep
    \/ Epilogue
    \/ SolveReturn

SpecRefine == InitRefine /\ [][NextRefine]_vars

-----------------------------------------------------------------------------
(* The initial guess of helpers.hpp called between the other interface calls *)

\* interface calls per behaviour of this scenario
GuessOps == 4

\* the solutions (dx, dy) a linear solve can leave in dw_aug
GuessVecs == VecsOver({0, 1}, qpmodel.dim) \X VecsOver({-1, 1}, qpmodel.n_eq)

InitGuess ==
    /\ \E i \in InitChoices : Constructed(1, i[1], i[2], i[3], i[4])
    /\ budget = [calls |-> GuessOps, solves |-> 1]

NextGuess ==
    \/ Next
    \/ InitialGuess
    \/ \E v \in GuessVecs : EqualityConstrainedEnd(v[1], v[2])

SpecGuess == InitGuess /\ [][NextGuess]_vars

-----------------------------------------------------------------------------
(* Properties *)

Solved == {"SolvedTop", "SolvedPost"}

SolveOver == pc \in {"epilogue", "done"}

\* R_p and R_d of the stopping test, from the norms last evaluated
R_p ==
    max2(max2(loc.primal_feasibility_eq_rhs_0, loc.primal_feasibility_in_rhs_0),
         max2(max2(qpwork.primal_feasibility_rhs_1_eq, qpwork.primal_feasibility_rhs_1_in_u),
              qpwork.primal_feasibility_rhs_1_in_l))

R_d ==
    max2(max2(loc.dual_feasibility_rhs_3, loc.dual_feasibility_rhs_0),
         max2(loc.dual_feasibility_rhs_1, qpwork.dual_feasibility_rhs_2))

\* C1: when qp_solve leaves the outer loop through a Solved exit (the test at
\* the head of an iteration or the test after the step), the primal and the
\* dual residual norms last evaluated satisfy
\* primal <= eps_abs + eps_rel * R_p and dual <= eps_abs + eps_rel * R_d.
C1_SolvedWithinTolerance ==
    (SolveOver /\ loc.exit \in Solved) =>
        LET primal == IF loc.exit = "SolvedTop" THEN loc.primal_feasibility_lhs
                      ELSE loc.primal_feasibility_lhs_new
            dual == IF loc.exit = "SolvedTop" THEN loc.dual_feasibility_lhs
                    ELSE loc.dual_feasibility_lhs_new
        IN  /\ primal <= qpsettings.eps_abs + qpsettings.eps_rel * R_p
            /\ dual <= qpsettings.eps_abs + qpsettings.eps_rel * R_d

\* a Solved exit after a step, with a dual residual that is not zero
C1_Witness ==
    /\ pc = "done"
    /\ loc.exit = "SolvedPost"
    /\ loc.dual_feasibility_lhs_new > 0
    /\ qpresults.info.n_tot > 0

\* a Solved exit at the head of an iteration under a relative tolerance
C1_WitnessTop ==
    /\ pc = "done"
    /\ loc.exit = "SolvedTop"
    /\ qpsettings.eps_rel # 0

\* C2: every call of qp_solve ends with the result status set to exactly one
\* of Solved and MaxIterReached.
C2_StatusSetOnReturn == (pc = "done") => (qpresults.info.status \in SolverStatus)

\* the steps the running linear solve can still take
LinearSolveMeasure ==
    LET B == qpsettings.nb_iterative_refinement
        left == IF loc.it < B THEN B - loc.it ELSE 0
    IN  CASE pc = "ls_solve" -> 2 * B + 6
          [] pc = "ls_loop" /\ loc.pass = 1 -> left + B + 5
          [] pc = "ls_after" /\ loc.pass = 1 -> B + 4
          [] pc = "ls_loop" /\ loc.pass = 2 -> left + 2
          [] pc = "ls_after" /\ loc.pass = 2 -> 1
          [] OTHER -> 0

\* a bound on the steps qp_solve can still take; 0 when no solve is running
Measure ==
    LET B == qpsettings.nb_iterative_refinement
        M == qpsettings.max_iter_in
        K == qpsettings.max_iter
        LS == 2 * B + 7
        OUT == 6 + M * (LS + 2) + LS
        rest == 3 + (K - loc.iter - 1) * OUT
        in_ls == pc \in {"ls_solve", "ls_loop", "ls_after"}
    IN  CASE pc = "idle" -> 0
          [] pc = "done" -> 1
          [] pc = "epilogue" -> 2
          [] pc = "outer" -> 3 + (K - loc.iter) * OUT
          [] pc = "bcl" -> rest + 1
          [] pc = "post" -> rest + 2
          [] pc = "newton" -> rest + 3 + (M - loc.iter_in) * (LS + 2)
          [] pc = "newton_end" -> rest + 4 + (M - loc.iter_in - 1) * (LS + 2)
          [] in_ls /\ loc.ret = "newton_end" ->
                rest + 4 + (M - loc.iter_in - 1) * (LS + 2) + LinearSolveMeasure
          [] pc = "correction_guess" -> rest + 4 + M * (LS + 2)
          [] pc = "initial_guess_end" -> rest + 5 + M * (LS + 2)
          [] in_ls /\ loc.ret = "initial_guess_end" ->
                rest + 5 + M * (LS + 2) + LinearSolveMeasure
          [] pc = "initial_guess" -> rest + 5 + M * (LS + 2) + LS

\* the counters of a running solve stay inside their bounds
SolveCounters ==
    /\ loc.iter <= qpsettings.max_iter
    /\ loc.n_initial_guess <= 1
    /\ loc.n_newton <= qpsettings.max_iter_in
    /\ loc.n_refine <= 2 * qpsettings.nb_iterative_refinement
    /\ pc # "idle" =>
          qpresults.info.n_ext - loc.n_ext_entry <= qpsettings.max_iter + 1
    /\ pc = "done" =>
          ((qpresults.info.n_ext - loc.n_ext_entry = qpsettings.max_iter + 1)
              <=> (loc.exit = "MaxIter"))

\* a running solve has a step to take: at every position the condition of one
\* of the steps of that position holds
SolveCanStep ==
    LET refact == RLeq(RMax(loc.eps, qpsettings.eps_refact), loc.err)
        more == RLeq(loc.eps, loc.err) /\ loc.it < qpsettings.nb_iterative_refinement
    IN  CASE pc = "ls_loop" ->
                 more \/ (loop_over(loc, qpsettings, pc) /\ (loc.pass \in {1, 2}))
          [] pc = "ls_after" -> (loc.pass = 1 /\ refact) \/ loc.pass = 2 \/ ~refact
          [] pc = "ls_solve" -> loc.ret \in {"initial_guess_end", "newton_end"}
          [] pc \in {"idle", "outer", "initial_guess", "correction_guess", "newton",
                     "initial_guess_end", "newton_end", "post", "bcl", "epilogue",
                     "done"} -> TRUE
          [] OTHER -> FALSE

\* C3: qp_solve terminates.  Every step of a running solve lowers Measure, a
\* natural number, and a running solve always has a step to take; there are at
\* most max_iter outer iterations, each with at most one initial-guess step
\* and max_iter_in Newton steps, each linear solve with at most
\* 2 * nb_iterative_refinement refinement passes; n_ext grows by at most
\* max_iter + 1, by exactly that when the loop stops on the iteration bound.
C3_SolveTerminates ==
    /\ [](SolveCounters /\ Measure >= 0 /\ SolveCanStep)
    /\ [][pc # "idle" => Measure' < Measure]_vars

\* a solve stopped by the iteration bound after max_iter > 0 iterations
C3_Witness ==
    /\ pc = "done"
    /\ loc.exit = "MaxIter"
    /\ qpsettings.max_iter > 0
    /\ qpresults.info.n_ext - loc.n_ext_entry = qpsettings.max_iter + 1
    /\ qpresults.info.n_tot > 0

\* a linear solve that has used every refinement pass the loops allow
C3_WitnessRefine ==
    /\ pc = "ls_loop"
    /\ loc.pass = 2
    /\ qpsettings.nb_iterative_refinement > 1
    /\ loc.n_refine = 2 * (qpsettings.nb_iterative_refinement - 1)

\* C4: on every exit of qp_solve (Solved at the head of an iteration, Solved
\* after the step, the max_iter bound) x, y, z have been unscaled exactly once
\* and the objective value is computed from the unscaled x.
C4_UnscaledOnEveryExit ==
    (pc = "done") =>
        /\ loc.n_unscale = 1
        /\ qpresults.info.objValue = objective(qpmodel, qpresults.x)

\* C5: after a solve that ended Solved, setup with policy
\* WARM_START_WITH_PREVIOUS_RESULT on identical data and the same scaling,
\* then solve: the solve stops at the first residual evaluation with n_ext = 1,
\* n_tot = 0, n_mu_change = 0 and x, y, z equal to the previous solution.
C5_ResolveStopsAtOnce ==
    (pc = "done" /\ last.op = "solve" /\ last.resolve) =>
        /\ loc.exit = "SolvedTop"
        /\ qpresults.info.n_ext = 1
        /\ qpresults.info.n_tot = 0
        /\ qpresults.info.n_mu_change = 0
        /\ <<qpresults.x, qpresults.y, qpresults.z>> = last.sol

\* such a second solve, of a non-zero solution found by stepping, under a scaling
C5_Witness ==
    /\ pc = "done"
    /\ last.op = "solve"
    /\ last.resolve
    /\ qpresults.x # Zeros(qpmodel.dim)
    /\ ruiz # RuizIdentity(qpmodel.dim, qpmodel.n_eq, qpmodel.n_in)

\* the parts of the workspace setup does not itself overwrite
WorkKept(w) ==
    <<w.x_prev, w.y_prev, w.z_prev, w.kkt, w.ldl, w.current_bijection_map>>

\* C6: setup acts on workspace and results as the policy table says:
\* EQUALITY_CONSTRAINED_INITIAL_GUESS, NO_INITIAL_GUESS and WARM_START clear
\* workspace and results; COLD_START_WITH_PREVIOUS_RESULT clears the workspace
\* and everything in results except x, y, z; WARM_START_WITH_PREVIOUS_RESULT
\* keeps the workspace and resets only the statistics; x, y, z are scaled
\* with the new preconditioner for exactly the two *_WITH_PREVIOUS_RESULT policies.
C6_SetupPolicyTable ==
    [][(last'.op = "setup" /\ nops'.calls = nops.calls + 1) =>
        LET policy == qpsettings.initial_guess
            n == qpmodel.dim
            cleared == WorkKept(qpwork') = WorkKept(WorkspaceInit(n, qpmodel.n_eq,
                                                                  qpmodel.n_in))
            rescaled == /\ qpresults'.x = scale_primal_in_place(ruiz', qpresults.x)
                        /\ qpresults'.y = scale_dual_in_place_eq(ruiz', qpresults.y)
                        /\ qpresults'.z = scale_dual_in_place_in(ruiz', qpresults.z)
        IN  CASE policy \in {"EQUALITY_CONSTRAINED_INITIAL_GUESS", "NO_INITIAL_GUESS",
                             "WARM_START"} ->
                    /\ cleared
                    /\ qpresults' = ResultsInit(n, qpmodel.n_eq, qpmodel.n_in)
              [] policy = "COLD_START_WITH_PREVIOUS_RESULT" ->
                    /\ cleared
                    /\ qpresults'.info = DefaultInfo
                    /\ qpresults'.n_c = 0
                    /\ rescaled
              [] policy = "WARM_START_WITH_PREVIOUS_RESULT" ->
                    /\ WorkKept(qpwork') = WorkKept(qpwork)
                    /\ qpresults'.info.n_ext = 0
                    /\ qpresults'.info.n_tot = 0
                    /\ qpresults'.info.n_mu_change = 0
                    /\ qpresults'.info.rho = qpresults.info.rho
                    /\ qpresults'.info.mu_eq = qpresults.info.mu_eq
                    /\ qpresults'.info.mu_in = qpresults.info.mu_in
                    /\ qpresults'.info.mu_eq_inv = qpresults.info.mu_eq_inv
                    /\ qpresults'.info.mu_in_inv = qpresults.info.mu_in_inv
                    /\ qpresults'.n_c = qpresults.n_c
                    /\ rescaled]_vars

\* a setup under COLD_START_WITH_PREVIOUS_RESULT that cleared a factorized
\* workspace and kept, scaled by 2, a non-zero x
C6_Witness ==
    /\ last.op = "setup"
    /\ last.policy = "COLD_START_WITH_PREVIOUS_RESULT"
    /\ last.precond = "EXECUTE"
    /\ nops.solves = 1
    /\ qpresults.x # Zeros(qpmodel.dim)
    /\ qpwork.ldl = <<>>

\* a setup under WARM_START_WITH_PREVIOUS_RESULT that kept the factorization
C6_WitnessKeep ==
    /\ last.op = "setup"
    /\ last.policy = "WARM_START_WITH_PREVIOUS_RESULT"
    /\ nops.solves = 1
    /\ qpwork.ldl # <<>>
    /\ qpresults.info.n_ext = 0

\* C7: the preconditioner directive selects the scaling; a setup with IDENTITY
\* leaves the scaled problem buffers equal to the unscaled model, even if an
\* earlier setup used EXECUTE.
C7_IdentityLeavesDataUnscaled ==
    (last.op = "setup" /\ last.precond = "IDENTITY") =>
        ScaledData(qpwork) = <<qpmodel.H, qpmodel.g, qpmodel.A, qpmodel.b, qpmodel.C,
                               qpmodel.u, qpmodel.l>>

\* the field of the model after update, for an optional argument and the field before
Updated(arg, before) == IF arg # nullopt THEN value(arg) ELSE before

\* C8: update replaces each of H, g, A, b, C, u, l that is supplied by the
\* supplied value and leaves every absent field unchanged, for all 2^7
\* combinations of present and absent arguments.
C8_UpdateReplacesSupplied ==
    [][(last'.op = "update" /\ nops'.calls = nops.calls + 1) =>
        /\ qpmodel'.H = Updated(last'.H_, qpmodel.H)
        /\ qpmodel'.g = Updated(last'.g_, qpmodel.g)
        /\ qpmodel'.A = Updated(last'.A_, qpmodel.A)
        /\ qpmodel'.b = Updated(last'.b_, qpmodel.b)
        /\ qpmodel'.C = Updated(last'.C_, qpmodel.C)
        /\ qpmodel'.u = Updated(last'.u_, qpmodel.u)
        /\ qpmodel'.l = Updated(last'.l_, qpmodel.l)
        /\ qpmodel'.dim = qpmodel.dim
        /\ qpmodel'.n_eq = qpmodel.n_eq
        /\ qpmodel'.n_in = qpmodel.n_in]_vars

\* an update of a set-up model that supplied H, A, C and u only
C8_Witness ==
    /\ last.op = "update"
    /\ nops.calls = 2
    /\ qpmodel.n_eq = 1 /\ qpmodel.n_in = 1
    /\ last.H_ # nullopt /\ last.A_ # nullopt /\ last.C_ # nullopt /\ last.u_ # nullopt
    /\ last.g_ = nullopt /\ last.b_ = nullopt /\ last.l_ = nullopt
    /\ qpmodel.H = Replacement(1, 1).H
    /\ qpmodel.C = Replacement(1, 1).C
    /\ qpmodel.g = Problem(1, 1, 1).g
    /\ qpmodel.b = Problem(1, 1, 1).b

\* the scaled problem the current model and scaling give
ScaledModel ==
    scale_qp_in_place(ruiz,
        [H |-> qpmodel.H, g |-> qpmodel.g, A |-> qpmodel.A, b |-> qpmodel.b,
         C |-> qpmodel.C, u |-> qpmodel.u, l |-> qpmodel.l], FALSE, ruiz)

\* the factorization holds H + rho I, A and the active rows of C of the current model
FactorizationOfModel ==
    LET n == qpmodel.dim
        m == ScaledModel
    IN  /\ Len(qpwork.ldl) = n + qpmodel.n_eq + qpresults.n_c
        /\ \A i \in 1..n, j \in 1..n :
              qpwork.ldl[i][j] = RAdd(RInt(m.H[i][j]),
                                      IF i = j THEN qpresults.info.rho ELSE <<0, 1>>)
        /\ \A k \in 1..qpmodel.n_eq, j \in 1..n : qpwork.ldl[n + k][j] = RInt(m.A[k][j])
        /\ \A i \in 1..qpmodel.n_in, j \in 1..n :
              qpwork.current_bijection_map[i] < qpresults.n_c =>
                  qpwork.ldl[n + qpmodel.n_eq + qpwork.current_bijection_map[i] + 1][j]
                      = RInt(m.C[i][j])

\* C9: after an update that replaces at least one of H, A, C, the next solve
\* computes every step with a factorization of the updated matrices.
C9_SolveFactorizesUpdatedData ==
    (last.op = "solve" /\ last.matrix_update /\ pc \in {"ls_solve", "ls_loop", "ls_after"})
        => FactorizationOfModel

\* the same requirement on a solve that follows setup and setup_factorization
C9_WitnessFresh ==
    /\ last.op = "solve"
    /\ ~last.matrix_update
    /\ pc = "ls_solve"
    /\ FactorizationOfModel

\* the result vector after warm_start, for an optional argument of dimension d
WarmStarted(arg, d, before) == IF arg # nullopt /\ d # 0 THEN value(arg) ELSE before

\* C10: warm_start replaces each result vector whose argument is supplied and
\* of non-zero dimension, ignores a vector of dimension zero, leaves the
\* others unchanged, and sets settings.initial_guess to WARM_START.
C10_WarmStartReplacesSupplied ==
    [][(last'.op = "warm_start" /\ nops'.calls = nops.calls + 1) =>
        /\ qpresults'.x = WarmStarted(last'.x_wm, qpmodel.dim, qpresults.x)
        /\ qpresults'.y = WarmStarted(last'.y_wm, qpmodel.n_eq, qpresults.y)
        /\ qpresults'.z = WarmStarted(last'.z_wm, qpmodel.n_in, qpresults.z)
        /\ qpsettings'.initial_guess = "WARM_START"]_vars

-----------------------------------------------------------------------------
(* The Identity preconditioner (preconditioner/identity.hpp)                *)

\* number of preconditioner calls in one run of SpecIdentity
IdentityOps == 3

\* a preconditioner that multiplies the primal variable by two when it
\* unscales it
doubling_unscale_primal_in_place(x) == [i \in DOMAIN x |-> 2 * x[i]]

IdentityPrecond_scale_qp_in_place(qp) == qp

IdentityPrecond_scale_primal_in_place(x) == x

IdentityPrecond_scale_dual_in_place_in(y) == y

IdentityPrecond_scale_dual_in_place_eq(y) == y

IdentityPrecond_scale_primal_residual_in_place(x) == x

IdentityPrecond_scale_dual_residual_in_place(y) == y

IdentityPrecond_unscale_primal_in_place(x) == x

IdentityPrecond_unscale_dual_in_place_in(y) == y

IdentityPrecond_unscale_dual_in_place_eq(y) == y

IdentityPrecond_unscale_primal_residual_in_place_in(x) == x

IdentityPrecond_unscale_primal_residual_in_place_eq(x) == x

IdentityPrecond_unscale_dual_residual_in_place(y) == y

\* the buffers the solver hands to the preconditioner
IdentityBuffers ==
    [x |-> qpresults.x, y |-> qpresults.y, z |-> qpresults.z,
     primal_residual_eq_scaled |-> qpwork.primal_residual_eq_scaled,
     primal_residual_in_scaled_up |-> qpwork.primal_residual_in_scaled_up,
     dual_residual_scaled |-> qpwork.dual_residual_scaled,
     qp |-> qpwork.qp]

InitIdentity ==
    /\ qpsettings = [preconditioner |-> "IdentityPrecond"]
    /\ qpmodel = [dim |-> 1, n_eq |-> 1, n_in |-> 1]
    /\ \E x \in VecsOver(Vals, 1), y \in VecsOver(Vals, 1), z \in VecsOver(Vals, 1) :
           qpresults = [x |-> x, y |-> y, z |-> z]
    /\ \E re \in VecsOver({0, 1}, 1), ri \in VecsOver({0, 1}, 1),
          rd \in VecsOver({0, 1}, 1) :
           qpwork = [primal_residual_eq_scaled |-> re,
                     primal_residual_in_scaled_up |-> ri,
                     dual_residual_scaled |-> rd,
                     qp |-> [H |-> <<<<1>>>>, g |-> <<1>>, A |-> <<<<1>>>>, b |-> <<1>>,
                             C |-> <<<<1>>>>, u |-> <<1>>, l |-> <<-1>>]]
    /\ ruiz = "IdentityPrecond"
    /\ loc = [entry |-> IdentityBuffers]
    /\ pc = "idle"
    /\ last = [op |-> "none", prev |-> "none"]
    /\ nops = [calls |-> 0]
    /\ budget = [calls |-> IdentityOps]

\* one call of a preconditioner method: the buffers after the call
IdentityCall(name, results, work) ==
    /\ nops.calls < budget.calls
    /\ qpresults' = results
    /\ qpwork' = work
    /\ last' = [op |-> name, prev |-> last.op]
    /\ nops' = [calls |-> nops.calls + 1]
    /\ UNCHANGED <<qpsettings, qpmodel, ruiz, loc, pc, budget>>

ScaleQpInPlace ==
    IdentityCall("scale_qp_in_place", qpresults,
        [qpwork EXCEPT !.qp = IdentityPrecond_scale_qp_in_place(qpwork.qp)])

ScalePrimalInPlace ==
    IdentityCall("scale_primal_in_place",
        [qpresults EXCEPT !.x = IdentityPrecond_scale_primal_in_place(qpresults.x)], qpwork)

ScaleDualInPlaceIn ==
    IdentityCall("scale_dual_in_place_in",
        [qpresults EXCEPT !.z = IdentityPrecond_scale_dual_in_place_in(qpresults.z)], qpwork)

ScaleDualInPlaceEq ==
    IdentityCall("scale_dual_in_place_eq",
        [qpresults EXCEPT !.y = IdentityPrecond_scale_dual_in_place_eq(qpresults.y)], qpwork)

ScalePrimalResidualInPlace ==
    IdentityCall("scale_primal_residual_in_place", qpresults,
        [qpwork EXCEPT !.primal_residual_eq_scaled =
            IdentityPrecond_scale_primal_residual_in_place(qpwork.primal_residual_eq_scaled)])

ScaleDualResidualInPlace ==
    IdentityCall("scale_dual_residual_in_place", qpresults,
        [qpwork EXCEPT !.dual_residual_scaled =
            IdentityPrecond_scale_dual_residual_in_place(qpwork.dual_residual_scaled)])

UnscalePrimalInPlace ==
    IdentityCall("unscale_primal_in_place",
        [qpresults EXCEPT !.x = IdentityPrecond_unscale_primal_in_place(qpresults.x)], qpwork)

UnscaleDualInPlaceIn ==
    IdentityCall("unscale_dual_in_place_in",
        [qpresults EXCEPT !.z = IdentityPrecond_unscale_dual_in_place_in(qpresults.z)], qpwork)

UnscaleDualInPlaceEq ==
    IdentityCall("unscale_dual_in_place_eq",
        [qpresults EXCEPT !.y = IdentityPrecond_unscale_dual_in_place_eq(qpresults.y)], qpwork)

UnscalePrimalResidualInPlaceIn ==
    IdentityCall("unscale_primal_residual_in_place_in", qpresults,
        [qpwork EXCEPT !.primal_residual_in_scaled_up =
            IdentityPrecond_unscale_primal_residual_in_place_in(
                qpwork.primal_residual_in_scaled_up)])

UnscalePrimalResidualInPlaceEq ==
    IdentityCall("unscale_primal_residual_in_place_eq", qpresults,
        [qpwork EXCEPT !.primal_residual_eq_scaled =
            IdentityPrecond_unscale_primal_residual_in_place_eq(
                qpwork.primal_residual_eq_scaled)])

UnscaleDualResidualInPlace ==
    IdentityCall("unscale_dual_residual_in_place", qpresults,
        [qpwork EXCEPT !.dual_residual_scaled =
            IdentityPrecond_unscale_dual_residual_in_place(qpwork.dual_residual_scaled)])

NextIdentity ==
    \/ ScaleQpInPlace
    \/ ScalePrimalInPlace
    \/ ScaleDualInPlaceIn
    \/ ScaleDualInPlaceEq
    \/ ScalePrimalResidualInPlace
    \/ ScaleDualResidualInPlace
    \/ UnscalePrimalInPlace
    \/ UnscaleDualInPlaceIn
    \/ UnscaleDualInPlaceEq
    \/ UnscalePrimalResidualInPlaceIn
    \/ UnscalePrimalResidualInPlaceEq
    \/ UnscaleDualResidualInPlace

SpecIdentity == InitIdentity /\ [][NextIdentity]_vars

\* C11: with the Identity preconditioner every scale and unscale call is a
\* no-op: after any sequence of calls on x, y, z, the primal residuals and
\* the dual residual, each buffer equals its value before the sequence.
C11_IdentityScalingIsNoOp == IdentityBuffers = loc.entry

\* a scale of a non-zero x followed by its unscale, within a longer sequence
C11_Witness ==
    /\ nops.calls = IdentityOps
    /\ last.prev = "scale_primal_in_place"
    /\ last.op = "unscale_primal_in_place"
    /\ qpresults.x # <<0>>
    /\ loc.entry.x # <<0>>

-----------------------------------------------------------------------------
(* The BCL update, the cold restart and the penalty update                 *)

\* the step of an outer iteration that runs bcl_update: a good step when the
\* primal residual after the inner step is within the outer tolerance
GoodStep == pc = "bcl" /\ RLeq(RInt(loc.primal_feasibility_lhs_new), loc.bcl_eta_ext)

BadStep == pc = "bcl" /\ ~RLeq(RInt(loc.primal_feasibility_lhs_new), loc.bcl_eta_ext)

\* the cold-restart condition of the step being taken: the new primal and
\* dual residuals are both at least the previous primal residual (floored at
\* machine epsilon: the norms are integers) and mu_in >= 1e5
ColdRestartTaken ==
    /\ IF loc.primal_feasibility_lhs > 0
       THEN /\ loc.primal_feasibility_lhs_new >= loc.primal_feasibility_lhs
            /\ loc'.dual_feasibility_lhs_new >= loc.primal_feasibility_lhs
       ELSE /\ loc.primal_feasibility_lhs_new > 0
            /\ loc'.dual_feasibility_lhs_new > 0
    /\ RLeq(<<100000, 1>>, qpresults.info.mu_in)

\* the penalties in use
Penalties(results) ==
    <<results.info.mu_eq, results.info.mu_in, results.info.mu_eq_inv, results.info.mu_in_inv>>

\* C12: on a BCL good step bcl_eta_ext becomes bcl_eta_ext * (1/mu_in)^beta_bcl
\* and bcl_eta_in becomes max(bcl_eta_in / mu_in, eps_in_min); mu_eq, mu_in,
\* rho, y and z are unchanged (the penalties unless the cold restart of the
\* same iteration replaces them); bcl_eta_ext strictly decreases when mu_in > 1.
C12_GoodStepTightensTolerances ==
    [][GoodStep =>
        /\ loc'.bcl_eta_ext =
               RMul(loc.bcl_eta_ext,
                    RPow(RDiv(<<1, 1>>, qpresults.info.mu_in), qpsettings.beta_bcl))
        /\ loc'.bcl_eta_in =
               RMax(RDiv(loc.bcl_eta_in, qpresults.info.mu_in), loc.eps_in_min)
        /\ qpresults'.y = qpresults.y
        /\ qpresults'.z = qpresults.z
        /\ qpresults'.info.rho = qpresults.info.rho
        /\ (~ColdRestartTaken => Penalties(qpresults') = Penalties(qpresults))
        /\ (RLt(<<1, 1>>, qpresults.info.mu_in)
                => RLt(loc'.bcl_eta_ext, loc.bcl_eta_ext))]_vars

\* after a good step taken with mu_in > 1 (a zero primal residual is within
\* every outer tolerance), the outer tolerance is below its initial value
C12_Witness ==
    /\ pc = "outer"
    /\ loc.iter = 1
    /\ loc.primal_feasibility_lhs_new = 0
    /\ qpresults.info.n_mu_change = 0
    /\ RLt(<<1, 1>>, qpresults.info.mu_in)
    /\ RLt(loc.bcl_eta_ext, loc.bcl_eta_ext_init)

\* after a good step taken with mu_in = 1 the outer tolerance is not reduced
C12_WitnessUnit ==
    /\ pc = "outer"
    /\ loc.iter = 1
    /\ loc.primal_feasibility_lhs_new = 0
    /\ qpresults.info.mu_in = <<1, 1>>
    /\ loc.bcl_eta_ext = loc.bcl_eta_ext_init

\* the positions of a solve between the head of an outer iteration and its
\* BCL update
InnerPositions ==
    {"initial_guess", "initial_guess_end", "correction_guess", "newton", "newton_end",
     "ls_solve", "ls_loop", "ls_after", "post", "bcl"}

\* the penalties proposed by a bad step
BadStepProposal ==
    <<RMin(RMul(qpresults.info.mu_eq, qpsettings.mu_update_factor), qpsettings.mu_max_eq),
      RMin(RMul(qpresults.info.mu_in, qpsettings.mu_update_factor), qpsettings.mu_max_in),
      RMax(RMul(qpresults.info.mu_eq_inv, qpsettings.mu_update_inv_factor),
           qpsettings.mu_max_eq_inv),
      RMax(RMul(qpresults.info.mu_in_inv, qpsettings.mu_update_inv_factor),
           qpsettings.mu_max_in_inv)>>

\* C13: on a BCL bad step y and z return to the values saved at the start of
\* the outer iteration and x keeps its value; the proposed penalties are
\* min(mu*factor, mu_max) with inverses max(inv*inv_factor, max_inv);
\* bcl_eta_ext becomes bcl_eta_ext_init * (1/mu_in_new)^alpha_bcl and bcl_eta_in
\* max(1/mu_in_new, eps_in_min); mu_eq and mu_in never exceed their maxima.
C13_BadStepRollsBackAndCaps ==
    /\ [][(pc = "outer" /\ pc' \in InnerPositions) =>
            /\ qpwork'.y_prev = qpresults.y
            /\ qpwork'.z_prev = qpresults.z]_vars
    /\ [][(pc \in InnerPositions) =>
            /\ qpwork'.y_prev = qpwork.y_prev
            /\ qpwork'.z_prev = qpwork.z_prev]_vars
    /\ [][BadStep =>
            /\ qpresults'.y = qpwork.y_prev
            /\ qpresults'.z = qpwork.z_prev
            /\ qpresults'.x = qpresults.x
            /\ (~ColdRestartTaken => Penalties(qpresults') = BadStepProposal)
            /\ loc'.bcl_eta_ext =
                   RMul(loc.bcl_eta_ext_init,
                        RPow(RDiv(<<1, 1>>, BadStepProposal[2]), qpsettings.alpha_bcl))
            /\ loc'.bcl_eta_in =
                   RMax(RDiv(<<1, 1>>, BadStepProposal[2]), loc.eps_in_min)]_vars
    /\ [](/\ RLeq(qpresults.info.mu_eq, qpsettings.mu_max_eq)
          /\ RLeq(qpresults.info.mu_in, qpsettings.mu_max_in))

\* after two bad steps: mu_eq was capped by the second one, y is the value
\* saved at the head of the iteration and x is the value after the step
C13_Witness ==
    /\ pc = "outer"
    /\ loc.iter = 2
    /\ loc.primal_feasibility_lhs_new > 0
    /\ qpresults.info.n_mu_change = 2
    /\ qpresults.info.mu_eq = qpsettings.mu_max_eq
    /\ qpresults.y = qpwork.y_prev
    /\ qpresults.z = qpwork.z_prev
    /\ qpresults.x # qpwork.x_prev

\* C14: after the BCL update, if the new primal and dual residuals are both
\* at least the previous primal residual (floored at machine epsilon) and
\* mu_in >= 1e5, the penalties applied are the cold-reset constants; if one of
\* the three conditions fails the proposal of the BCL update is applied.
C14_ColdRestartOverrides ==
    [][(pc = "bcl") =>
        LET b == bcl_update(qpsettings, qpresults, qpwork, loc.primal_feasibility_lhs_new,
                            loc)
        IN  Penalties(qpresults') =
                IF ColdRestartTaken
                THEN <<qpsettings.cold_reset_mu_eq, qpsettings.cold_reset_mu_in,
                       qpsettings.cold_reset_mu_eq_inv, qpsettings.cold_reset_mu_in_inv>>
                ELSE <<b.new_bcl_mu_eq, b.new_bcl_mu_in,
                       b.new_bcl_mu_eq_inv, b.new_bcl_mu_in_inv>>]_vars

\* after a cold restart: the cold-reset constants are in use
C14_Witness ==
    /\ pc = "outer"
    /\ loc.iter = 1
    /\ loc.primal_feasibility_lhs_new >= max2(loc.primal_feasibility_lhs, 1)
    /\ loc.dual_feasibility_lhs_new >= max2(loc.primal_feasibility_lhs, 1)
    /\ Penalties(qpresults) =
           <<qpsettings.cold_reset_mu_eq, qpsettings.cold_reset_mu_in,
             qpsettings.cold_reset_mu_eq_inv, qpsettings.cold_reset_mu_in_inv>>

\* a bad step with mu_in >= 1e5 whose primal residual fell: no cold restart
C14_WitnessProposal ==
    /\ pc = "outer"
    /\ loc.iter = 1
    /\ loc.primal_feasibility_lhs_new > 0
    /\ loc.primal_feasibility_lhs_new < loc.primal_feasibility_lhs
    /\ qpresults.info.mu_in = qpsettings.mu_max_in

\* C15: in each outer iteration that reaches the mu update n_mu_change grows
\* by one if the (mu_eq, mu_in) applied differ from those in use and by zero
\* otherwise; no other step of a solve changes it; the factorization is
\* updated once, with the penalties chosen after the BCL update and the
\* cold-restart decision.
C15_CountsEffectiveChanges ==
    /\ [][(pc = "bcl") =>
            /\ qpresults'.info.n_mu_change =
                   qpresults.info.n_mu_change
                     + (IF <<qpresults'.info.mu_eq, qpresults'.info.mu_in>>
                               # <<qpresults.info.mu_eq, qpresults.info.mu_in>>
                        THEN 1 ELSE 0)
            /\ qpwork' = mu_update(qpmodel, qpresults, qpwork,
                                   qpresults'.info.mu_eq_inv, qpresults'.info.mu_in_inv)]_vars
    /\ [][(pc \in InnerPositions \ {"bcl"} \/ pc \in {"outer", "epilogue", "done"}) =>
            /\ qpresults'.info.n_mu_change = qpresults.info.n_mu_change
            /\ Penalties(qpresults') = Penalties(qpresults)]_vars

\* a bad step with both penalties already at their maxima: no change counted
C15_Witness ==
    /\ pc = "outer"
    /\ loc.iter = 1
    /\ loc.primal_feasibility_lhs_new > 0
    /\ qpresults.info.n_mu_change = 0
    /\ qpresults.info.mu_eq = qpsettings.mu_max_eq
    /\ qpresults.info.mu_in = qpsettings.mu_max_in

\* a bad step followed by a cold restart in the same iteration: one change
C15_WitnessColdRestart ==
    /\ pc = "outer"
    /\ loc.iter = 1
    /\ loc.primal_feasibility_lhs_new > 0
    /\ qpresults.info.n_mu_change = 1
    /\ qpresults.info.mu_in = qpsettings.cold_reset_mu_in

-----------------------------------------------------------------------------
(* The head of an outer iteration: refactorization and inner strategy      *)

\* the head of an outer iteration that evaluates the residuals
HeadStep == pc = "outer" /\ loc.iter < qpsettings.max_iter

\* the step set rho to refactor_rho_threshold and rebuilt the factorization
RefactorizedAtHead ==
    /\ qpresults.info.rho # qpsettings.refactor_rho_threshold
    /\ qpresults'.info.rho = qpsettings.refactor_rho_threshold
    /\ LET w == refactorize(qpmodel, qpresults, qpwork, qpsettings.refactor_rho_threshold)
       IN  qpwork'.kkt = w.kkt /\ qpwork'.ldl = w.ldl

\* the step left rho and the factorization alone
FactorizationKeptAtHead ==
    /\ qpresults'.info.rho = qpresults.info.rho
    /\ qpwork'.kkt = qpwork.kkt
    /\ qpwork'.ldl = qpwork.ldl

\* C16 as stated: at the head of an outer iteration rho is set to
\* refactor_rho_threshold and the factorization rebuilt exactly when the
\* primal test passes, the dual test fails and rho != refactor_rho_threshold;
\* no refactorization happens where both tests pass.
C16_RefactorIffDualTestFails ==
    [][HeadStep =>
        IF /\ loc'.is_primal_feasible
           /\ ~loc'.is_dual_feasible
           /\ qpresults.info.rho # qpsettings.refactor_rho_threshold
        THEN RefactorizedAtHead
        ELSE FactorizationKeptAtHead]_vars

\* C16 amended: at the head of an outer iteration rho is set to
\* refactor_rho_threshold and the factorization rebuilt exactly when the
\* primal test passes, the dual residual norm is at least
\* refactor_dual_feasibility_threshold and rho != refactor_rho_threshold.
C16_RefactorIffDualAboveThreshold ==
    [][HeadStep =>
        IF /\ loc'.is_primal_feasible
           /\ RLeq(qpsettings.refactor_dual_feasibility_threshold,
                   RInt(loc'.dual_feasibility_lhs))
           /\ qpresults.info.rho # qpsettings.refactor_rho_threshold
        THEN RefactorizedAtHead
        ELSE FactorizationKeptAtHead]_vars

\* a solve that left through the exit at the head of an iteration (both tests
\* passed) with rho moved to refactor_rho_threshold by that iteration
C16_Witness ==
    /\ pc = "epilogue"
    /\ loc.exit = "SolvedTop"
    /\ loc.iter = 0
    /\ loc.is_primal_feasible
    /\ loc.is_dual_feasible
    /\ loc.dual_feasibility_lhs > 0
    /\ qpresults.info.rho = qpsettings.refactor_rho_threshold

\* an iteration that refactorized and went on to an inner step
C16_WitnessContinue ==
    /\ pc \in {"initial_guess", "correction_guess"}
    /\ loc.is_primal_feasible
    /\ ~loc.is_dual_feasible
    /\ qpresults.info.rho = qpsettings.refactor_rho_threshold

\* C17: in each non-terminal outer iteration the initial-guess step runs iff
\* primal_feasibility_lhs < eps_IG or n_in = 0; the correction guess runs iff
\* n_in > 0 and the initial guess did not run or returned err >= bcl_eta_in;
\* with n_in = 0 exactly one initial-guess step and no correction guess runs,
\* with n_in > 0 at least one of the two runs.
C17_InnerStrategySelection ==
    /\ [][(HeadStep /\ pc' # "epilogue") =>
            /\ pc' \in {"initial_guess", "correction_guess"}
            /\ (pc' = "initial_guess") <=>
                   (\/ RLt(RInt(loc'.primal_feasibility_lhs), qpsettings.eps_IG)
                    \/ qpmodel.n_in = 0)
            /\ (pc' = "correction_guess") => qpmodel.n_in > 0]_vars
    /\ [][(pc = "initial_guess_end") =>
            /\ pc' \in {"correction_guess", "post"}
            /\ (pc' = "correction_guess") <=>
                   (qpmodel.n_in > 0 /\ RLeq(loc.bcl_eta_in, loc'.err_in))]_vars
    /\ [](pc \in {"post", "bcl"} =>
            /\ loc.n_initial_guess <= 1
            /\ qpmodel.n_in = 0 => (loc.n_initial_guess = 1 /\ loc.n_newton = 0)
            /\ qpmodel.n_in > 0 => (loc.n_initial_guess = 1 \/ loc.n_newton >= 1))

\* an iteration with an inequality in which the initial guess ran, returned
\* err >= bcl_eta_in, and the correction guess ran after it
C17_Witness ==
    /\ pc = "post"
    /\ qpmodel.n_in > 0
    /\ loc.n_initial_guess = 1
    /\ loc.n_newton >= 1

\* an iteration without inequalities: one initial-guess step, nothing else
C17_WitnessNoInequality ==
    /\ pc = "post"
    /\ qpmodel.n_in = 0
    /\ loc.n_initial_guess = 1
    /\ loc.n_newton = 0

\* an iteration with an inequality in which only the correction guess ran
C17_WitnessCorrectionOnly ==
    /\ pc = "post"
    /\ qpmodel.n_in > 0
    /\ loc.n_initial_guess = 0
    /\ loc.n_newton >= 1

\* C18: whenever the line search of the initial guess returns a step length
\* with |alpha| < 1e-10 and n_in > 0, the initial guess reports
\* err_saddle_point = 1 and the correction guess runs in the same outer
\* iteration, whatever value bcl_eta_in has reached.
C18_ZeroStepForcesCorrection ==
    [][(pc = "initial_guess_end" /\ qpmodel.n_in > 0 /\ loc'.alpha = 0) =>
        /\ loc'.err_in = <<1, 1>>
        /\ pc' = "correction_guess"]_vars

-----------------------------------------------------------------------------
(* The loops of correction_guess and of the linear solve                   *)

\* the infinity norms of H x, A^T y and C^T z at the iterate after the step
NormHx == infty_norm(MatVec(qpwork.H_scaled, qpresults'.x))

NormATy == infty_norm(MatTVec(qpwork.A_scaled, qpresults'.y, qpmodel.dim))

NormCTz == infty_norm(MatTVec(qpwork.C_scaled, qpresults'.z, qpmodel.dim))

\* the infinity norm of the dual residual H x + A^T y + C^T z + g +
\* rho (x - x_prev) at the iterate after the step
NormDualResidual ==
    LET d == VAdd(VAdd(VAdd(MatVec(qpwork.H_scaled, qpresults'.x),
                            MatTVec(qpwork.A_scaled, qpresults'.y, qpmodel.dim)),
                       MatTVec(qpwork.C_scaled, qpresults'.z, qpmodel.dim)),
                  qpwork.g_scaled)
        dx == VSub(qpresults'.x, qpwork.x_prev)
    IN  RMaxSeq([j \in 1..qpmodel.dim |->
                    RAbs(RAdd(RInt(d[j]), RMul(qpresults.info.rho, RInt(dx[j]))))])

\* the step alpha * dx of the Newton iteration is below 1e-11 (the iterates
\* are integers: the step is zero)
StepBelowTolerance == qpresults'.x = qpresults.x

\* C19 as stated: the loop of correction_guess exits before its iteration
\* bound exactly when the norm of alpha*dx is below 1e-11 or the norm of the
\* dual residual is at most eps_int * (1 + ||H x|| + ||A^T y|| + ||C^T z||).
C19_ExitOnSumOfNorms ==
    [][(pc = "newton_end") =>
        /\ pc' \in {"post", "newton"}
        /\ (pc' = "post") <=>
               \/ StepBelowTolerance
               \/ RLeq(NormDualResidual,
                       RMul(loc.bcl_eta_in, RInt(1 + NormHx + NormATy + NormCTz)))]_vars

\* C19 amended: the loop exits before its iteration bound exactly when the
\* norm of alpha*dx is below 1e-11 or the norm of the dual residual is at most
\* eps_int * (1 + max(||g||, ||H x||, ||A^T y||, ||C^T z||)).
C19_ExitOnMaxOfNorms ==
    [][(pc = "newton_end") =>
        /\ pc' \in {"post", "newton"}
        /\ (pc' = "post") <=>
               \/ StepBelowTolerance
               \/ RLeq(NormDualResidual,
                       RMul(loc.bcl_eta_in,
                            RInt(1 + max2(max2(infty_norm(qpwork.g_scaled), NormHx),
                                          max2(NormATy, NormCTz)))))]_vars

\* the loop left on the residual test after a non-zero step, at a point where
\* the residual exceeds eps_int times one plus the sum of the three norms
C19_Witness ==
    /\ pc = "post"
    /\ loc.n_newton >= 1
    /\ loc.iter_in = 0
    /\ qpresults.x # qpwork.x_prev
    /\ LET c == correction_guess_error_sum(qpmodel, qpresults, qpwork, qpresults.x,
                                           qpresults.y, qpresults.z)
       IN  /\ loc.err_in = c.err_in
           /\ ~RLeq(c.err_in, RMul(loc.bcl_eta_in, RInt(c.rhs_c)))

\* the loop went on after a step whose residual was above the tolerance
C19_WitnessContinue ==
    /\ pc = "newton"
    /\ loc.iter_in >= 1
    /\ loc.iter_in < qpsettings.max_iter_in


\* a step that makes one refinement pass of the inner linear solve
RefinePass == pc = "ls_loop" /\ loc'.n_refine = loc.n_refine + 1

\* a step that leaves the loop test without making a pass
LeavesLoopTest == pc = "ls_loop" /\ ~RefinePass /\ vars' # vars

\* the pass of this step does not decrease the residual norm
PassDoesNotDecrease == ~RLt(loc'.err, loc.err)

\* the pass of this step makes the residual norm grow
PassGrows == RLt(loc.err, loc'.err)

\* C20 as stated: the refinement loop makes no pass once the residual norm
\* is at most eps, makes no more than nb_iterative_refinement solves, and
\* stops at the second of two consecutive passes whose residual norm does not
\* decrease (stays equal or grows).
C20_StopsOnNonDecrease ==
    [][/\ RefinePass => /\ ~RLeq(loc.err, loc.eps)
                        /\ loc.it < qpsettings.nb_iterative_refinement
       /\ RefinePass /\ loc.it_stability = 1 /\ PassDoesNotDecrease
            => pc' = "ls_after"]_vars

\* C20, amended: the refinement loop makes a pass only while the residual
\* norm is at least eps (it returns once the norm is strictly below eps) and
\* fewer than nb_iterative_refinement solves were made, it leaves the loop
\* test otherwise only for one of these two reasons, and it breaks exactly at
\* the second of two consecutive passes whose residual norm strictly grows; a
\* pass whose norm stays equal resets the count.
C20_StopsOnGrowth ==
    [][/\ RefinePass => /\ RLeq(loc.eps, loc.err)
                        /\ loc.it < qpsettings.nb_iterative_refinement
                        /\ loc.preverr = loc.err
       /\ LeavesLoopTest => \/ RLt(loc.err, loc.eps)
                            \/ loc.it >= qpsettings.nb_iterative_refinement
       /\ RefinePass => (pc' = "ls_after" <=> loc.it_stability = 1 /\ PassGrows)
       /\ RefinePass /\ ~PassGrows => loc'.it_stability = 0 /\ pc' = "ls_loop"]_vars

\* the loop was left by the stability break before the bound on the solves
C20_Witness ==
    /\ pc = "ls_after"
    /\ loc.it_stability = 2
    /\ loc.it < qpsettings.nb_iterative_refinement

\* the loop test is reached with the residual norm equal to eps after a pass
C20_WitnessAtTolerance ==
    /\ pc = "ls_loop"
    /\ loc.n_refine >= 2
    /\ loc.it_stability = 0
    /\ loc.err = loc.eps
    /\ loc.it < qpsettings.nb_iterative_refinement

\* the loop test is reached with the bound on the solves exhausted
C20_WitnessBound ==
    /\ pc = "ls_loop"
    /\ loc.it = qpsettings.nb_iterative_refinement
    /\ RLeq(loc.eps, loc.err)
    /\ loc.n_refine > 0

-----------------------------------------------------------------------------
(* The fallback refactorization of the inner linear solve *)

\* the control is inside the inner linear solve
InLinearSolve == pc \in {"ls_solve", "ls_loop", "ls_after"}

\* a step that rebuilds the factorization and restarts the solve: the count of
\* solves is back at one without a refinement pass having been made
RebuildStep ==
    /\ pc \in {"ls_loop", "ls_after"}
    /\ pc' = "ls_loop"
    /\ loc'.n_refine = loc.n_refine
    /\ vars' # vars

\* a step by which the inner linear solve returns to its caller
LinearSolveReturns == pc \in {"ls_loop", "ls_after"} /\ ~InLinearSolve'

\* the residual norm is at least max(eps, eps_refact)
ResidualAtLeastRefact == RLeq(RMax(loc.eps, qpsettings.eps_refact), loc.err)

\* the residual norm is above max(eps, eps_refact)
ResidualAboveRefact == RLt(RMax(loc.eps, qpsettings.eps_refact), loc.err)

\* what a rebuild does besides the test of the residual: it happens once the
\* first loop is over, restarts the loop a single time with the counters reset,
\* and the second loop ends in a return
RebuildsOnceAndRestarts ==
    /\ RebuildStep => /\ loc.pass = 1 /\ loc'.pass = 2
                      /\ loop_over(loc, qpsettings, pc)
                      /\ loc'.it = 1 /\ loc'.it_stability = 0
                      /\ loc'.preverr = loc'.err
                      /\ loc'.eps = loc.eps /\ loc'.ret = loc.ret
    /\ InLinearSolve => loc.pass \in {1, 2}
    /\ loc.pass = 2 /\ pc \in {"ls_loop", "ls_after"} /\ vars' # vars
          => \/ LinearSolveReturns
             \/ pc = "ls_loop" /\ loc'.n_refine = loc.n_refine + 1 /\ loc'.pass = 2

\* C21 as stated: in one call of the inner linear solve the factorization is
\* rebuilt at most once, only when the residual left by the first loop exceeds
\* max(eps, eps_refact); the loop is then restarted once with its counters
\* reset and no second rebuild follows.
C21_RebuildOnlyAboveThreshold ==
    [][/\ RebuildsOnceAndRestarts
       /\ RebuildStep => ResidualAboveRefact]_vars

\* C21, amended: the same, the rebuild being made exactly when the residual
\* left by the first loop is at least max(eps, eps_refact) (equality included):
\* the first loop never returns with such a residual.
C21_RebuildAtOrAboveThreshold ==
    [][/\ RebuildsOnceAndRestarts
       /\ RebuildStep => ResidualAtLeastRefact
       /\ LinearSolveReturns /\ loc.pass = 1 => ~ResidualAtLeastRefact]_vars

\* the restarted loop is over with a residual that is still too large: a
\* second rebuild would be due, and the solve returns instead
C21_Witness ==
    /\ loc.pass = 2
    /\ loop_over(loc, qpsettings, pc)
    /\ ResidualAtLeastRefact
    /\ loc.n_refine > 0

\* the first loop is over with the residual equal to max(eps, eps_refact)
C21_WitnessAtThreshold ==
    /\ loc.pass = 1
    /\ loop_over(loc, qpsettings, pc)
    /\ loc.err = RMax(loc.eps, qpsettings.eps_refact)

\* the restarted loop ended at its test with solves to spare: on the tolerance
RestartedLoopMetTolerance ==
    /\ loc.pass = 2
    /\ pc = "ls_loop"
    /\ loc.it < qpsettings.nb_iterative_refinement

\* C22 as stated: at every return of the inner linear solve the residual norm
\* of the computed step is at most max(eps, eps_refact).
C22_ResidualBoundedAtEveryReturn ==
    [][LinearSolveReturns
         => RLeq(loc.err, RMax(loc.eps, qpsettings.eps_refact))]_vars

\* C22, amended: the residual norm is below max(eps, eps_refact) at every
\* return made without the fallback refactorization, and below eps at a return
\* whose restarted loop ended on the tolerance test; a return after a restarted
\* loop that ran out of solves or broke on stability carries no bound.
C22_ResidualBoundedWithoutFallback ==
    [][/\ LinearSolveReturns /\ loc.pass = 1
            => RLt(loc.err, RMax(loc.eps, qpsettings.eps_refact))
       /\ LinearSolveReturns /\ RestartedLoopMetTolerance
            => RLt(loc.err, loc.eps)]_vars

\* the first loop is over after a refinement pass with a residual below the
\* bound: the solve returns without the fallback
C22_Witness ==
    /\ loc.pass = 1
    /\ loop_over(loc, qpsettings, pc)
    /\ loc.n_refine > 0
    /\ ~ResidualAtLeastRefact

\* the restarted loop met the tolerance
C22_WitnessRestarted ==
    /\ RestartedLoopMetTolerance
    /\ loc.n_refine > 0
    /\ RLt(loc.err, loc.eps)

-----------------------------------------------------------------------------
(* The factored matrix *)

\* entry (i, j) of the regularized KKT block of dimension n + m_eq: H_scaled +
\* rho I, A_scaled and its transpose, and eq_diag on the equality diagonal
KktBlockEntry(i, j, eq_diag) ==
    LET n == qpmodel.dim
    IN  IF i <= n /\ j <= n
        THEN RAdd(RInt(qpwork.H_scaled[i][j]),
                  IF i = j THEN qpresults.info.rho ELSE <<0, 1>>)
        ELSE IF i <= n THEN RInt(qpwork.A_scaled[j - n][i])
        ELSE IF j <= n THEN RInt(qpwork.A_scaled[i - n][j])
        ELSE IF i = j THEN eq_diag
        ELSE <<0, 1>>

\* M has dimension n + m_eq and the block form with eq_diag on the equality
\* diagonal
HasKktBlockForm(M, eq_diag) ==
    LET d == qpmodel.dim + qpmodel.n_eq
    IN  /\ Len(M) = d
        /\ \A i \in 1..d : /\ Len(M[i]) = d
                            /\ \A j \in 1..d : M[i][j] = KktBlockEntry(i, j, eq_diag)

\* setup_factorization has just returned
AfterSetupFactorization == pc = "idle" /\ last.op = "setup_factorization"

\* C23: after setup_factorization the matrix handed to the LDLT engine has
\* dimension n + m_eq, top-left block H_scaled + rho I, off-diagonal blocks
\* A_scaled and its transpose, and -(1/mu_eq) on the equality diagonal, zero
\* elsewhere in the equality block.
C23_FactoredBlockForm ==
    AfterSetupFactorization
        => HasKktBlockForm(qpwork.ldl, RNeg(RInv(qpresults.info.mu_eq)))

\* the (1-based) indices of the equality rows and of the active-inequality
\* slots in the factored matrix
EqualityIndices == (qpmodel.dim + 1)..(qpmodel.dim + qpmodel.n_eq)

ActiveIndices(results) ==
    (qpmodel.dim + qpmodel.n_eq + 1)..(qpmodel.dim + qpmodel.n_eq + results.n_c)

\* M has the dimension of the inner problem
HasInnerDimension(M, results) == Len(M) = qpmodel.dim + qpmodel.n_eq + results.n_c

\* the penalty part of the workspace invariant: the factored matrix has the
\* dimension of the inner problem, -1/mu_eq on the equality diagonal and
\* -1/mu_in on the diagonal of the active inequalities
PenaltyDiagonals(M, results) ==
    /\ HasInnerDimension(M, results)
    /\ \A k \in EqualityIndices : M[k][k] = RNeg(results.info.mu_eq_inv)
    /\ \A k \in ActiveIndices(results) : M[k][k] = RNeg(results.info.mu_in_inv)

\* the stored inverses are the reciprocals of the penalties
InversesAreReciprocals(results) ==
    /\ results.info.mu_eq_inv = RInv(results.info.mu_eq)
    /\ results.info.mu_in_inv = RInv(results.info.mu_in)

C24_WitnessAfterNewton ==
    /\ pc = "outer"
    /\ loc.iter > 0
    /\ loc.n_newton > 0
    /\ qpresults.n_c > 0
    /\ qpresults.info.n_mu_change = loc.iter
    /\ PenaltyDiagonals(qpwork.ldl, qpresults)
    /\ qpwork.dw_aug = Zeros(Len(qpwork.dw_aug))

-----------------------------------------------------------------------------
(* The bijection map *)

\* the inequalities the bijection map places in a slot of the factorization
RowsInSlots == {i \in 1..qpmodel.n_in : qpwork.current_bijection_map[i] < qpresults.n_c}

\* the inequalities flagged in qpwork.active_inequalities
ActiveRows == {i \in 1..qpmodel.n_in : qpwork.active_inequalities[i]}

\* the entries of the map below n_c are pairwise distinct and cover 0..n_c-1
SlotsArePermutation ==
    /\ {qpwork.current_bijection_map[i] : i \in RowsInSlots} = 0..(qpresults.n_c - 1)
    /\ Cardinality(RowsInSlots) = qpresults.n_c

\* the map, n_c and the active set agree
MapMatchesActiveSet ==
    /\ RowsInSlots = ActiveRows
    /\ SlotsArePermutation
    /\ qpresults.n_c = Cardinality(ActiveRows)

\* the points of an inner step at which the map is read: the residual of the
\* linear solve and its fallback refactorization, the permutation of the step
ReadsMapInStep == pc \in {"ls_solve", "ls_loop", "ls_after", "initial_guess_end"}

\* between outer iterations: at the head of the loop, where refactorize reads
\* the map
BetweenOuterIterations == pc = "outer" /\ loc.iter > 0

C25_WitnessRecomputed ==
    /\ BetweenOuterIterations
    /\ RowsInSlots # ActiveRows
    /\ SlotsArePermutation
    /\ HasInnerDimension(qpwork.ldl, qpresults)

-----------------------------------------------------------------------------
(* Refactorization from scratch *)

\* the step at the head of an outer iteration in which refactorize runs
RhoRefactorStep == pc = "outer" /\ qpresults'.info.rho # qpresults.info.rho

\* the inequality the bijection map places in slot j
SlotRow(j) == CHOOSE i \in 1..qpmodel.n_in : qpwork.current_bijection_map[i] = j

\* entry (i, j) of the matrix a rebuild is to produce from the KKT block K: K
\* itself, then for slot s the row of C_scaled of the inequality in slot s in
\* the first n entries, -1/mu_in on the diagonal, and zero elsewhere
RebuiltEntry(K, i, j) ==
    LET d  == qpmodel.dim + qpmodel.n_eq
        hi == IF i >= j THEN i ELSE j
        lo == IF i >= j THEN j ELSE i
    IN  IF hi <= d THEN K[i][j]
        ELSE IF lo <= qpmodel.dim THEN RInt(qpwork.C_scaled[SlotRow(hi - d - 1)][lo])
        ELSE IF lo = hi THEN RNeg(qpresults.info.mu_in_inv)
        ELSE <<0, 1>>

\* entry (i, j) of the KKT block a rebuild is to factorize: the stored block
\* with the primal diagonal shifted by shift and -1/mu_eq on the equality
\* diagonal
RebuiltKktEntry(i, j, shift) ==
    IF i = j /\ i <= qpmodel.dim THEN RAdd(qpwork.kkt[i][j], shift)
    ELSE IF i = j THEN RNeg(qpresults.info.mu_eq_inv)
    ELSE qpwork.kkt[i][j]

IsRebuilt ==
    /\ Len(qpwork.ldl) = qpmodel.dim + qpmodel.n_eq + qpresults.n_c
    /\ \A i, j \in 1..Len(qpwork.ldl) : qpwork.ldl[i][j] = RebuiltEntry(qpwork.kkt, i, j)

C26_WitnessRho ==
    /\ pc \in {"initial_guess", "correction_guess"}
    /\ loc.iter > 0
    /\ qpresults.info.rho = qpsettings.refactor_rho_threshold
    /\ qpresults.n_c > 0
    /\ qpwork.dw_aug = Zeros(Len(qpwork.dw_aug))
    /\ IsRebuilt

-----------------------------------------------------------------------------
(* The step of the initial guess on the inequality multipliers *)

\* the step in which initial_guess takes its step on x, y and z
InitialGuessStep == pc = "initial_guess_end"

\* the rows the bijection map holds outside the factorization
MapInactive(i) == qpwork.current_bijection_map[i] >= qpresults.n_c

\* the multiplier initial_guess keeps of a candidate c on a row with the active
\* sets act: its positive part on an upper-active row, its negative part on a
\* lower-active row, both on a row in both sets, c itself on a row in neither
KeptMultiplier(act, c) ==
    (IF act.up /\ c > 0 THEN c ELSE 0) + (IF act.low /\ c < 0 THEN c ELSE 0)
        + (IF ~act.up /\ ~act.low THEN c ELSE 0)

\* C27: the step of the initial guess on a row the map holds inactive
\* (map[i] >= n_c) is -z_i, the rows with map[i] < n_c taking the KKT solution
\* at their slot; hence after a full step (alpha = 1) every map-inactive
\* inequality has z_i = 0, and after any step z_i >= 0 on a row that is only
\* upper-active and z_i <= 0 on a row that is only lower-active (active sets
\* as recomputed after the line search).
C27_InitialGuessStepOnZ ==
    [][InitialGuessStep =>
          LET alpha == loc'.alpha
              act == initial_guess_active_after(qpmodel, qpresults, qpwork,
                                                qpresults'.x, qpwork.z_prev)
          IN  \A i \in 1..qpmodel.n_in :
                /\ MapInactive(i) =>
                      /\ qpresults'.z[i] =
                            KeptMultiplier(act[i], qpresults.z[i] + alpha * (0 - qpresults.z[i]))
                      /\ alpha = 1 => qpresults'.z[i] = 0
                /\ act[i].up /\ ~act[i].low => qpresults'.z[i] >= 0
                /\ act[i].low /\ ~act[i].up => qpresults'.z[i] <= 0
                /\ qpwork'.active_inequalities[i] = (act[i].up \/ act[i].low)]_vars

\* the initial guess has just taken its step (no Newton step since)
AfterInitialGuessStep ==
    /\ pc \in {"correction_guess", "post"}
    /\ loc.n_initial_guess = 1
    /\ loc.n_newton = 0

\* a full step has zeroed the nonzero multiplier of a map-inactive inequality
C27_Witness ==
    /\ AfterInitialGuessStep
    /\ loc.alpha = 1
    /\ \E i \in 1..qpmodel.n_in :
          /\ MapInactive(i)
          /\ qpwork.z_prev[i] # 0
          /\ qpresults.z[i] = 0

\* a step has left a negative multiplier on a row in a slot that is only
\* lower-active after the line search
C27_WitnessSigned ==
    /\ AfterInitialGuessStep
    /\ \E i \in 1..qpmodel.n_in :
          LET act == initial_guess_active_after(qpmodel, qpresults, qpwork,
                                                qpresults.x, qpwork.z_prev)
          IN  /\ ~MapInactive(i)
              /\ act[i].low /\ ~act[i].up
              /\ qpresults.z[i] < 0

-----------------------------------------------------------------------------
(* The equality-constrained initial guess *)

EqualityConstrained == "EQUALITY_CONSTRAINED_INITIAL_GUESS"

\* the step in which initial_guess of helpers.hpp is called
InitialGuessCalled ==
    /\ pc = "idle"
    /\ nops'.calls = nops.calls + 1
    /\ last'.op = "initial_guess"

\* the linear solve of the equality-constrained initial guess is running
InEqualityConstrainedSolve == InLinearSolve /\ loc.ret = "equality_constrained_end"

\* the step that stores the solution and ends the call
EqualityConstrainedStored == pc = "equality_constrained_end"

\* C28: the equality-constrained initial guess solves the system of dimension
\* n + m_eq with right-hand side (-g_scaled, b_scaled), stores the first n
\* components of the solution in x and the next m_eq in y, leaves z unchanged
\* and leaves rhs and dw_aug all zero; initial_guess changes x and y only for
\* the policy EQUALITY_CONSTRAINED_INITIAL_GUESS and leaves the results (and the
\* workspace) untouched for every other policy.
C28_EqualityConstrainedGuess ==
    [][/\ InitialGuessCalled =>
            /\ qpresults' = qpresults
            /\ qpsettings.initial_guess # EqualityConstrained =>
                  /\ qpwork' = qpwork
                  /\ pc' = "idle"
            /\ qpsettings.initial_guess = EqualityConstrained =>
                  /\ pc' = "ls_solve"
                  /\ loc'.ret = "equality_constrained_end"
                  /\ loc'.inner_pb_dim = qpmodel.dim + qpmodel.n_eq
                  /\ loc'.inner_pb_dim = Len(qpwork.ldl)
                  /\ loc'.eps = <<1, 1>>
                  /\ \A k \in 1..Len(qpwork.rhs) :
                        qpwork'.rhs[k] =
                            IF k <= qpmodel.dim THEN 0 - qpwork.g_scaled[k]
                            ELSE IF k <= qpmodel.dim + qpmodel.n_eq
                            THEN qpwork.b_scaled[k - qpmodel.dim]
                            ELSE 0
       /\ InEqualityConstrainedSolve => qpresults' = qpresults
       /\ EqualityConstrainedStored =>
            /\ qpresults'.x = last'.sol[1]
            /\ qpresults'.y = last'.sol[2]
            /\ qpresults'.z = qpresults.z
            /\ qpresults'.n_c = qpresults.n_c
            /\ qpresults'.info = qpresults.info
            /\ qpwork'.rhs = Zeros(Len(qpwork.rhs))
            /\ qpwork'.dw_aug = Zeros(Len(qpwork.dw_aug))
            /\ pc' = "idle"]_vars

\* the equality-constrained initial guess has stored a solution that changes
\* x and y, and the scratch vectors are zero
C28_Witness ==
    /\ pc = "idle"
    /\ last.op = "initial_guess"
    /\ last.policy = EqualityConstrained
    /\ last.sol # <<>>
    /\ qpmodel.n_eq > 0
    /\ qpresults.x = last.sol[1] /\ qpresults.x # Zeros(qpmodel.dim)
    /\ qpresults.y = last.sol[2] /\ qpresults.y # Zeros(qpmodel.n_eq)
    /\ qpwork.rhs = Zeros(Len(qpwork.rhs))
    /\ qpwork.dw_aug = Zeros(Len(qpwork.dw_aug))

\* initial_guess has been called under another policy with a warm start in
\* the results, which it left as they were
C28_WitnessOtherPolicy ==
    /\ pc = "idle"
    /\ last.op = "initial_guess"
    /\ last.policy = "WARM_START"
    /\ last.sol = <<>>
    /\ qpresults.x # Zeros(qpmodel.dim)

-----------------------------------------------------------------------------
(* The proximal parameter rho within qp_solve *)

\* qp_solve is running
InSolve == pc # "idle"

\* the primal diagonal of the matrix M is that of H_scaled + rho I
PrimalDiagonalMatches(M, work, results) ==
    \A i \in 1..qpmodel.dim :
        M[i][i] = RAdd(RInt(work.H_scaled[i][i]), results.info.rho)

\* the conditions of the refactorization test other than the one on rho, as
\* evaluated at the head of the current outer iteration
RefactorConditionsMet ==
    /\ loc.is_primal_feasible
    /\ RLeq(qpsettings.refactor_dual_feasibility_threshold, RInt(loc.dual_feasibility_lhs))

\* C29: within one call of qp_solve rho changes only at the head of an outer
\* iteration (the feasibility check before the inner step), only to
\* refactor_rho_threshold and only when the iterate is primal feasible with a
\* dual residual at or above the threshold; once rho = refactor_rho_threshold
\* it never changes again, so it changes at most once; and the primal
\* diagonal of the KKT block (stored and factored) is H_scaled + rho I after
\* the change if it was before.
C29_RhoChangesOnce ==
    [][InSolve =>
          /\ qpresults'.info.rho # qpresults.info.rho =>
                /\ pc = "outer"
                /\ qpresults'.info.rho = qpsettings.refactor_rho_threshold
                /\ RefactorConditionsMet'
                /\ PrimalDiagonalMatches(qpwork.kkt, qpwork, qpresults)
                      => PrimalDiagonalMatches(qpwork'.kkt, qpwork', qpresults')
                /\ PrimalDiagonalMatches(qpwork.ldl, qpwork, qpresults)
                      => PrimalDiagonalMatches(qpwork'.ldl, qpwork', qpresults')
          /\ qpresults.info.rho = qpsettings.refactor_rho_threshold =>
                /\ qpresults'.info.rho = qpresults.info.rho
                /\ \A i \in 1..qpmodel.dim : /\ qpwork'.kkt[i][i] = qpwork.kkt[i][i]
                                             /\ qpwork'.ldl[i][i] = qpwork.ldl[i][i]]_vars

\* in the first solve (which rho enters below the threshold) an outer iteration
\* after the first has passed its head with the iterate primal feasible and
\* the dual residual at or above the threshold while rho was already at
\* refactor_rho_threshold, the primal diagonal being that of H_scaled + rho I
C29_Witness ==
    /\ pc \in {"initial_guess", "correction_guess"}
    /\ nops.solves = 1
    /\ loc.iter > 0
    /\ RefactorConditionsMet
    /\ qpresults.info.rho = qpsettings.refactor_rho_threshold
    /\ PrimalDiagonalMatches(qpwork.kkt, qpwork, qpresults)
    /\ PrimalDiagonalMatches(qpwork.ldl, qpwork, qpresults)

\* the same in a solve whose stored KKT block does not carry the primal
\* diagonal of H_scaled + rho I
C29_WitnessLater ==
    /\ pc \in {"initial_guess", "correction_guess"}
    /\ nops.solves = 1
    /\ ~PrimalDiagonalMatches(qpwork.kkt, qpwork, qpresults)
    /\ loc.iter > 0
    /\ RefactorConditionsMet
    /\ qpresults.info.rho = qpsettings.refactor_rho_threshold
    /\ qpresults.n_c > 0
    /\ qpwork.dw_aug = Zeros(Len(qpwork.dw_aug))

-----------------------------------------------------------------------------
(* A warm start followed by setup *)

\* setup has just returned from a call made right after warm_start, which had
\* left a nonzero x in the results
SetupAfterWarmStart ==
    /\ pc = "idle"
    /\ last.op = "setup"
    /\ last.x_wm # nullopt
    /\ value(last.x_wm) # Zeros(qpmodel.dim)

\* C30 as stated: after warm_start then setup the results still hold the
\* vectors warm_start had supplied.
C30_WarmStartSurvivesSetup ==
    SetupAfterWarmStart =>
        /\ qpresults.x = value(last.x_wm)
        /\ qpresults.y = value(last.y_wm)
        /\ qpresults.z = value(last.z_wm)

\* C30, amended: after warm_start then setup the policy is still WARM_START,
\* and setup has cleared the results: x, y and z are zero, whatever warm_start
\* had supplied, and the statistics and parameters are the default ones.
C30_SetupClearsWarmStart ==
    SetupAfterWarmStart =>
          /\ last.policy = "WARM_START"
          /\ qpsettings.initial_guess = "WARM_START"
          /\ qpresults.x = Zeros(qpmodel.dim)
          /\ qpresults.y = Zeros(qpmodel.n_eq)
          /\ qpresults.z = Zeros(qpmodel.n_in)
          /\ qpresults.n_c = 0
          /\ qpresults.info = DefaultInfo

\* setup has cleared a warm start of all three vectors
C30_Witness ==
    /\ SetupAfterWarmStart
    /\ qpmodel.n_eq > 0
    /\ qpmodel.n_in > 0
    /\ value(last.y_wm) # Zeros(qpmodel.n_eq)
    /\ value(last.z_wm) # Zeros(qpmodel.n_in)
    /\ qpresults.x = Zeros(qpmodel.dim)
    /\ qpresults.y = Zeros(qpmodel.n_eq)
    /\ qpresults.z = Zeros(qpmodel.n_in)
====
